---- MODULE Spec2Model ----
\* Data-acquisition pipeline of the ASL 2D-to-3D notebooks: the per-modality
\* extractors get_face / get_hands / get_body, the aggregator and corpus
\* builder get_keypoints, and the sequence padder padding_seq.
\*
\* A run is: get_keypoints(data_path) over the recording folders, then the two
\* padding_seq calls of the notebook cell that follows it.  The file system is
\* read-only input; it is fixed in Init and never changes.
\*
\* Spec   is the full-keypoint notebook (face + hands + body, both slots).
\* SpecKp is the single-keypoint notebook (one body joint, slot 0 only); its
\*        definitions carry the suffix Kp.
\* SpecNorm, SpecSplit and SpecTrain are the later cells of the single-keypoint
\*        notebook: arrays, normalize and nan_to_num; the train/validation/test
\*        split; the training cell and the test cell.
\* SpecStats is the statistics cell of the full-keypoint notebook.
\* SpecLoss runs the single-keypoint notebook from the padded lists to the
\*        test cell, with the targets each minibatch's loss is taken over.
EXTENDS Integers, Sequences, FiniteSets, TLC

VARIABLES
    fs,            \* the recording folders under data_path, in listdir order
    rec,           \* index in fs of the recording get_keypoints is working on
    pc,            \* position in the run; "raised": an exception left get_keypoints,
                   \* "pad_raised": an exception left the padding cell
    files,         \* the trimmed slice of frame files the running extractor iterates
    fi,            \* index in files of the next frame to read
    face_2D_seq, face_3D_seq,   \* get_face locals / face_2d, face_3d
    hand_2D_seq, hand_3D_seq,   \* get_hands locals / hands_2d, hands_3d
    body_2D_seq, body_3D_seq,   \* get_body locals / pose_2d, pose_3d
    dataset, groundtruth,       \* the corpus (inputs, targets)
    max_seq,       \* value returned by padding_seq(dataset); -1 before the call
    err,           \* exception that ended the run, "none" while running
    out,           \* lines printed so far
    \* the cells after padding (single-keypoint notebook)
    mean_std_kp,   \* value returned by normalize(dataset, 2)
    mean_std_lbl,  \* value returned by normalize(groundtruth); its entry 0 is (mz, stdz)
    training_kp, val_kp, test_kp,      \* the three slices of dataset
    training_lbl, val_lbl, test_lbl,   \* the three slices of groundtruth
    \* the training and test cells
    epoch,         \* the loop variable i of the training loop
    hidden,        \* h: the recurrent state of the training loop and of the test pass
    val_h,         \* the recurrent state of the validation pass
    params,        \* the model parameters
    opt_state,     \* the optimizer state
    mode,          \* "train" or "eval": the flag set by model.train() / model.eval()
    loader,        \* the minibatches the running loader iteration has not produced yet
    tr_losses, val_losses,             \* the per-epoch loss lists
    calls,         \* the forward calls made so far, in order
    \* the statistics cell (full-keypoint notebook)
    d_min, d_max, d_mean   \* stats locals, returned as mins, maxs, means

statistics == <<d_min, d_max, d_mean>>

\* the variables of the cells downstream of padding
downstream == <<mean_std_kp, mean_std_lbl, training_kp, val_kp, test_kp,
                training_lbl, val_lbl, test_lbl, epoch, hidden, val_h, params,
                opt_state, mode, loader, tr_losses, val_losses, calls, statistics>>

vars == <<fs, rec, pc, files, fi, face_2D_seq, face_3D_seq,
          hand_2D_seq, hand_3D_seq, body_2D_seq, body_3D_seq,
          dataset, groundtruth, max_seq, err, out, downstream>>

-----------------------------------------------------------------------------
\* Bounds of the explored inputs.
MaxFiles  == 4     \* entries listed in one modality folder
MaxPeople == 3     \* person entries in one frame document
MaxRec    == 2     \* recording folders under data_path

\* Widths fixed by the code (zero fill) and by the JSON layout.
FaceJoints == 70
HandJoints == 21
BodyJoints == 26
FaceZero2D == 140
FaceZero3D == 70
HandsZero2D == 84
HandsZero3D == 42
OneHandZero2D == 42
OneHandZero3D == 21
BodyZero2D == 52
BodyZero3D == 26
NaN == -1          \* np.nan; every real coordinate of the model is >= 1, zero fill is 0

Min(a, b) == IF a < b THEN a ELSE b
Max(a, b) == IF a > b THEN a ELSE b

Zeros(n) == [k \in 1..n |-> 0]
NaNs(n)  == [k \in 1..n |-> NaN]

\* Python l[start::step] on a 0-based list, as a 1-based sequence.
Slice(l, start, step) ==
    [k \in 1..((Len(l) - start + step - 1) \div step) |-> l[start + (k - 1) * step + 1]]

\* The empty pair of per-slot lists ([], []).
EmptyPair == << <<>>, <<>> >>

-----------------------------------------------------------------------------
\* Input: frame documents.  A person entry carries its id and, for the hands
\* modality, which of the left_hand / right_hand sub-records it has.  The
\* landmark values are not interpreted by the code, only moved, so each
\* coordinate is a distinct positive label naming where it was read from:
\* recording r, modality m (1 face, 2 hands, 3 body), file name f, position of
\* the person entry in the document p, hand h (0 none, 1 left, 2 right),
\* 1-based position c in the flat landmark list.
Label(r, m, f, p, h, c) == ((((r * 10 + m) * 10 + f) * 10 + p) * 10 + h) * 1000 + c

LabelRec(v)  == v \div 10000000
LabelMod(v)  == (v \div 1000000) % 10
LabelFile(v) == (v \div 100000) % 10
LabelPos(v)  == (v \div 10000) % 10
LabelHand(v) == (v \div 1000) % 10
LabelIdx(v)  == v % 1000

Landmarks(r, m, f, p, h, n) == [c \in 1..n |-> Label(r, m, f, p, h, c)]

Person(id, l, rh) == [id |-> id, left |-> l, right |-> rh]

\* n valid person entries with ids first..first+n-1
ValidFrom(first, n) == [k \in 1..n |-> Person(first + k - 1, TRUE, TRUE)]

\* Documents: 0..MaxPeople valid entries, and documents that start with an
\* id = -1 entry followed by no or one valid entry.
PeopleDocs ==
    {ValidFrom(0, n) : n \in 0..MaxPeople}
    \cup {<<Person(-1, TRUE, TRUE)>> \o ValidFrom(1, n) : n \in 0..1}

HandKinds == {<<TRUE, TRUE>>, <<FALSE, TRUE>>, <<TRUE, FALSE>>, <<FALSE, FALSE>>}

\* Hands documents: the same, and documents of one or two valid entries whose
\* last entry lacks the left hand, the right hand or both.
HandsDocs ==
    PeopleDocs
    \cup {ValidFrom(0, n) \o <<Person(n, hk[1], hk[2])>> : n \in 0..1, hk \in HandKinds}

Blank == <<>>

\* An entry of a folder listing.  raises is the exception that open() or
\* json.load() raises on the file, "none" if the document is read.
File(name, people) == [name |-> name, isfile |-> TRUE, people |-> people, raises |-> "none"]
Dir(name) == [name |-> name, isfile |-> FALSE, people |-> Blank, raises |-> "none"]

\* A regular file that cannot be opened (OSError) or does not hold a JSON
\* document (JSONDecodeError).
IOErrors == {"OSError", "JSONDecodeError"}
Corrupt(name, e) == [name |-> name, isfile |-> TRUE, people |-> Blank, raises |-> e]

-----------------------------------------------------------------------------
\* Input: folder listings.  A listing is sorted(listdir(folder)); names are the
\* positions in that order, so equal names in two folders are the same frame.
Names(first, docs) == [k \in 1..Len(docs) |-> File(first + k - 1, docs[k])]

\* Listings of n files whose files at positions lo..hi hold any document of D
\* and whose other files are blank.
Listings(D, n, lo, hi) ==
    {Names(1, [k \in 1..n |-> IF k \in lo..hi THEN g[k] ELSE Blank]) : g \in [lo..hi -> D]}

\* A listing that starts with a directory, followed by n files with two
\* detections each.
DirListing(n) == <<Dir(1)>> \o Names(2, [k \in 1..n |-> ValidFrom(0, 2)])

Recording(f, h, b) == [hdFace3d |-> f, hdHand3d |-> h, hdPose3d_stage1_op25 |-> b]

\* One recording in which one modality folder holds arbitrary documents in the
\* frames its extractor keeps, the other two folders being empty.
FocusRecordings ==
    UNION {
        {Recording(l, <<>>, <<>>) : l \in Listings(PeopleDocs, n, 2, n) \cup {DirListing(n)}}
        \cup {Recording(<<>>, l, <<>>) : l \in Listings(HandsDocs, n, 2, n - 1) \cup {DirListing(n)}}
        \cup {Recording(<<>>, <<>>, l) : l \in Listings(PeopleDocs, n, 1, n - 1) \cup {DirListing(n)}}
      : n \in 0..MaxFiles}

\* Recordings whose three folders list the same MaxFiles frame files, every
\* frame with the same number of valid detections (2, 1 or 0).
UniformDocs == {ValidFrom(0, 2), ValidFrom(0, 1), ValidFrom(0, 0)}

UniformRecordings ==
    {Recording(Names(1, [k \in 1..MaxFiles |-> d]), Names(1, [k \in 1..MaxFiles |-> d]),
               Names(1, [k \in 1..MaxFiles |-> d])) : d \in UniformDocs}

\* Recordings laid out so that the three trimmed folders keep the same frames
\* 2..n+1: face lists 1..n+1, hands 1..n+2, body 2..n+2; two detections a frame.
StaggeredRecordings ==
    {Recording(Names(1, [k \in 1..(n + 1) |-> ValidFrom(0, 2)]),
               Names(1, [k \in 1..(n + 2) |-> ValidFrom(0, 2)]),
               Names(2, [k \in 1..(n + 1) |-> ValidFrom(0, 2)])) : n \in 1..(MaxFiles - 2)}

Corpora ==
    UNION {[1..R -> UniformRecordings \cup StaggeredRecordings] : R \in 0..MaxRec}

\* The recording with two detections in each of its MaxFiles frames, and the
\* same recording with the k-th file of one modality folder corrupt.
TwoPeopleRecording ==
    Recording(Names(1, [k \in 1..MaxFiles |-> ValidFrom(0, 2)]),
              Names(1, [k \in 1..MaxFiles |-> ValidFrom(0, 2)]),
              Names(1, [k \in 1..MaxFiles |-> ValidFrom(0, 2)]))

CorruptAt(listing, k, e) == [listing EXCEPT ![k] = Corrupt(listing[k].name, e)]

CorruptRecordings ==
    {[TwoPeopleRecording EXCEPT !.hdFace3d = CorruptAt(@, k, e)] : k \in 1..MaxFiles, e \in IOErrors}
    \cup {[TwoPeopleRecording EXCEPT !.hdHand3d = CorruptAt(@, k, e)] : k \in 1..MaxFiles, e \in IOErrors}
    \cup {[TwoPeopleRecording EXCEPT !.hdPose3d_stage1_op25 = CorruptAt(@, k, e)]
             : k \in 1..MaxFiles, e \in IOErrors}

\* A corrupt recording alone, and after a recording that is read through.
CorruptFileSystems ==
    {<<c>> : c \in CorruptRecordings} \cup {<<TwoPeopleRecording, c>> : c \in CorruptRecordings}

\* Two recordings whose body folder keeps three frames of two detections each
\* (four files, the last one dropped) and that have no face and no hands data:
\* the two folders are empty, or their frames list no person.
BodyOnlyRecording(face, hands) ==
    Recording(face, hands, Names(1, [k \in 1..4 |-> ValidFrom(0, 2)]))

BodyOnlyFileSystems ==
    {<<r, r>> : r \in {BodyOnlyRecording(<<>>, <<>>),
                       BodyOnlyRecording(Names(1, [k \in 1..4 |-> ValidFrom(0, 0)]),
                                         Names(1, [k \in 1..5 |-> ValidFrom(0, 0)]))}}

FileSystems ==
    {<<r>> : r \in FocusRecordings} \cup Corpora \cup CorruptFileSystems \cup BodyOnlyFileSystems

-----------------------------------------------------------------------------
\* listdir + isfile filter of one modality folder (lines 93-94, 132-133, 191-192)
RegularFiles(listing) == SelectSeq(listing, LAMBDA e : e.isfile)

\* Python list slices used to trim the frame files
DropFirst(s)        == SubSeq(s, 2, Len(s))          \* files[1:]
DropFirstAndLast(s) == SubSeq(s, 2, Len(s) - 1)      \* files[1:-1]
DropLast(s)         == SubSeq(s, 1, Len(s) - 1)      \* files[:-1]

\* Mutant of Interleave: the values are grouped by axis, x1..xn then y1..yn.
Interleave_Grouped(x, y) == x \o y

\* [l[item] for item in range(len(x)) for l in [x, y]]
Interleave(x, y) ==
    [k \in 1..(2 * Len(x)) |-> IF k % 2 = 1 THEN x[(k + 1) \div 2] ELSE y[k \div 2]]

\* [lm[c] for c in range(n) if (c+1)%3 != 0]
DropEveryThird(lm, n) ==
    [k \in 1..(n - n \div 3) |-> lm[k + (k - 1) \div 2]]

\* slot i of a pair of lists gets v appended (i is the 0-based Python index)
AppendSlot(pair, i, v) == [pair EXCEPT ![i + 1] = Append(@, v)]

\* Accumulator of one frame's person loop: the two pairs of lists, the slot
\* counter i and the exception raised, if any.
Acc(s2, s3, i, e) == [s2 |-> s2, s3 |-> s3, i |-> i, err |-> e]

Raise(acc, e) == [acc EXCEPT !.err = e]

\* seq[i].append(v2) ; seq3[i].append(v3) ; indexing the 2-tuple with i >= 2
\* raises IndexError before anything is appended
AppendBoth(acc, v2, v3) ==
    IF acc.i >= 2 THEN Raise(acc, "IndexError")
    ELSE Acc(AppendSlot(acc.s2, acc.i, v2), AppendSlot(acc.s3, acc.i, v3), acc.i, "none")

Incr(acc) == IF acc.err = "none" THEN [acc EXCEPT !.i = @ + 1] ELSE acc

-----------------------------------------------------------------------------
\* get_face, one person entry (lines 100-107)
FacePerson(acc, r, f, p, person) ==
    IF acc.err # "none" \/ person.id = -1 THEN acc
    ELSE LET lm == Landmarks(r, 1, f, p, 0, 3 * FaceJoints)
             x == Slice(lm, 0, 3)
             y == Slice(lm, 1, 3)
             two_coord == Interleave(x, y)
             third_coord == Slice(lm, 2, 3)
         IN  Incr(AppendBoth(acc, two_coord, third_coord))

\* Mutant of FaceFill: a frame without a detection zero-fills both slots.
FaceFill_BothSlots(acc) ==
    IF acc.err = "none" /\ acc.i = 0
    THEN Acc(AppendSlot(AppendSlot(acc.s2, 0, Zeros(FaceZero2D)), 1, Zeros(FaceZero2D)),
             AppendSlot(AppendSlot(acc.s3, 0, Zeros(FaceZero3D)), 1, Zeros(FaceZero3D)),
             acc.i, "none")
    ELSE IF acc.err = "none" /\ acc.i < 2
    THEN AppendBoth(acc, Zeros(FaceZero2D), Zeros(FaceZero3D))
    ELSE acc

\* get_face, zero fill after the person loop (lines 108-110)
FaceFill(acc) ==
    IF acc.err = "none" /\ acc.i < 2
    THEN AppendBoth(acc, Zeros(FaceZero2D), Zeros(FaceZero3D))
    ELSE acc

RECURSIVE FacePeople(_, _, _, _, _)
FacePeople(acc, r, f, people, p) ==
    IF p > Len(people) THEN acc
    ELSE FacePeople(FacePerson(acc, r, f, p, people[p]), r, f, people, p + 1)

\* get_face, the body of the loop over frame files (lines 96-110); open and
\* json.load (lines 96-97) are not inside any try
FaceFrame(s2, s3, r, file) ==
    IF file.raises # "none" THEN Raise(Acc(s2, s3, 0, "none"), file.raises)
    ELSE FaceFill(FacePeople(Acc(s2, s3, 0, "none"), r, file.name, file.people, 1))

-----------------------------------------------------------------------------
\* get_hands: the exception the try block (lines 141-149) raises, "none" if it
\* runs through.  The inner comprehension first evaluates
\* len(person['right_hand']['landmarks']), then person['left_hand'].
TryHands(person, i) ==
    IF ~person.right THEN "KeyError 'right_hand'"
    ELSE IF ~person.left THEN "KeyError 'left_hand'"
    ELSE IF i >= 2 THEN "IndexError tuple index out of range"
    ELSE "none"

\* 'left_hand' in str(e), 'right_hand' in str(e) (lines 152, 160)
InStr(key, e) ==
    \/ key = "left_hand"  /\ e = "KeyError 'left_hand'"
    \/ key = "right_hand" /\ e = "KeyError 'right_hand'"

\* x,y and z of one hand's landmark list
HandXY(lm) == DropEveryThird(lm, Len(lm))
HandZ(lm)  == Slice(lm, 2, 3)

\* Mutant of LeftMissing: the zeros are put after the right hand's values.
LeftMissing_ZerosLast(right) ==
    [hands |-> HandXY(right) \o Zeros(OneHandZero2D),
     hands_3d |-> HandZ(right) \o Zeros(OneHandZero3D)]

\* hands / hands_3d when left_hand is missing (lines 154-156)
LeftMissing(right) ==
    [hands |-> Zeros(OneHandZero2D) \o HandXY(right),
     hands_3d |-> Zeros(OneHandZero3D) \o HandZ(right)]

\* hands / hands_3d when right_hand is missing (lines 161-163)
RightMissing(left) ==
    [hands |-> HandXY(left) \o Zeros(OneHandZero2D),
     hands_3d |-> HandZ(left) \o Zeros(OneHandZero3D)]

\* get_hands, one person entry (lines 139-167)
HandsPerson(acc, r, f, p, person) ==
    IF acc.err # "none" \/ person.id = -1 THEN acc
    ELSE LET left  == Landmarks(r, 2, f, p, 1, 3 * HandJoints)
             right == Landmarks(r, 2, f, p, 2, 3 * HandJoints)
             e == TryHands(person, acc.i)
         IN  IF e = "none"
             THEN Incr(AppendBoth(acc, DropEveryThird(left, Len(right)) \o HandXY(right),
                                       HandZ(left) \o HandZ(right)))
             ELSE IF InStr("left_hand", e)
             THEN IF person.right
                  THEN Incr(AppendBoth(acc, LeftMissing(right).hands, LeftMissing(right).hands_3d))
                  ELSE Incr(AppendBoth(acc, Zeros(HandsZero2D), Zeros(HandsZero3D)))
             ELSE IF InStr("right_hand", e)
             THEN IF person.left
                  THEN Incr(AppendBoth(acc, RightMissing(left).hands, RightMissing(left).hands_3d))
                  ELSE Raise(acc, "KeyError")
             ELSE Raise(acc, "IndexError")

\* Mutant of HandsFill: the zero fill of the depth list (line 170) is left out.
HandsFill_PlanarOnly(acc) ==
    IF acc.err = "none" /\ acc.i < 2
    THEN Acc(AppendSlot(acc.s2, acc.i, Zeros(HandsZero2D)), acc.s3, acc.i, "none")
    ELSE acc

\* get_hands, zero fill after the person loop (lines 168-170)
HandsFill(acc) ==
    IF acc.err = "none" /\ acc.i < 2
    THEN AppendBoth(acc, Zeros(HandsZero2D), Zeros(HandsZero3D))
    ELSE acc

RECURSIVE HandsPeople(_, _, _, _, _)
HandsPeople(acc, r, f, people, p) ==
    IF p > Len(people) THEN acc
    ELSE HandsPeople(HandsPerson(acc, r, f, p, people[p]), r, f, people, p + 1)

\* get_hands, the body of the loop over frame files (lines 135-170); open and
\* json.load (lines 135-136) are outside the try of line 140
HandsFrame(s2, s3, r, file) ==
    IF file.raises # "none" THEN Raise(Acc(s2, s3, 0, "none"), file.raises)
    ELSE HandsFill(HandsPeople(Acc(s2, s3, 0, "none"), r, file.name, file.people, 1))

-----------------------------------------------------------------------------
\* get_body, one person entry (lines 198-205)
BodyPerson(acc, r, f, p, person) ==
    IF acc.err # "none" \/ person.id = -1 THEN acc
    ELSE LET lm == Landmarks(r, 3, f, p, 0, 4 * BodyJoints)
             x == Slice(lm, 0, 4)
             y == Slice(lm, 1, 4)
             two_coord == Interleave(x, y)
             third_coord == Slice(lm, 2, 4)
         IN  Incr(AppendBoth(acc, two_coord, third_coord))

\* get_body, zero fill after the person loop (lines 206-208)
BodyFill(acc) ==
    IF acc.err = "none" /\ acc.i < 2
    THEN AppendBoth(acc, Zeros(BodyZero2D), Zeros(BodyZero3D))
    ELSE acc

RECURSIVE BodyPeople(_, _, _, _, _)
BodyPeople(acc, r, f, people, p) ==
    IF p > Len(people) THEN acc
    ELSE BodyPeople(BodyPerson(acc, r, f, p, people[p]), r, f, people, p + 1)

\* Mutant of BodyFrame: a file that cannot be read is skipped.
BodyFrame_SkipsCorrupt(s2, s3, r, file) ==
    IF file.raises # "none" THEN Acc(s2, s3, 0, "none")
    ELSE BodyFill(BodyPeople(Acc(s2, s3, 0, "none"), r, file.name, file.people, 1))

\* get_body, the body of the loop over frame files (lines 194-208); open and
\* json.load (lines 194-195) are not inside any try
BodyFrame(s2, s3, r, file) ==
    IF file.raises # "none" THEN Raise(Acc(s2, s3, 0, "none"), file.raises)
    ELSE BodyFill(BodyPeople(Acc(s2, s3, 0, "none"), r, file.name, file.people, 1))

-----------------------------------------------------------------------------
\* zip(a, b, c) with fa+ha+po: stops at the shortest of the three lists
Zip3(a, b, c) ==
    [k \in 1..Min(Len(a), Min(Len(b), Len(c))) |-> a[k] \o b[k] \o c[k]]

\* max([len(x) for x in dataset]) for a non-empty dataset
RECURSIVE MaxLen(_)
MaxLen(ds) ==
    IF ds = <<>> THEN 0 ELSE Max(Len(Head(ds)), MaxLen(Tail(ds)))

\* the inner loop of padding_seq on one sequence (lines 299-300): the pad
\* width is read from seq[0], which raises IndexError on an empty sequence
PadOne(seq, L) ==
    IF L - Len(seq) <= 0 THEN [seq |-> seq, err |-> "none"]
    ELSE IF seq = <<>> THEN [seq |-> seq, err |-> "IndexError"]
    ELSE [seq |-> seq \o [j \in 1..(L - Len(seq)) |-> NaNs(Len(seq[1]))], err |-> "none"]

\* Mutant of PadFrom: the error is found before any sequence is padded, so
\* the collection is left as it was.
PadFrom_Rollback(ds, L, k) ==
    IF \E n \in k..Len(ds) : PadOne(ds[n], L).err # "none"
    THEN [ds |-> ds, err |-> "IndexError"]
    ELSE [ds |-> [n \in 1..Len(ds) |-> IF n >= k THEN PadOne(ds[n], L).seq ELSE ds[n]],
          err |-> "none"]

\* the outer loop of padding_seq from sequence k on; the sequences before k
\* have already been padded in place
RECURSIVE PadFrom(_, _, _)
PadFrom(ds, L, k) ==
    IF k > Len(ds) THEN [ds |-> ds, err |-> "none"]
    ELSE LET one == PadOne(ds[k], L)
         IN  IF one.err # "none" THEN [ds |-> ds, err |-> one.err]
             ELSE PadFrom([ds EXCEPT ![k] = one.seq], L, k + 1)

\* padding_seq(dataset) (lines 296-301): the collection after the call, the
\* returned max_seq and the exception raised, if any
padding_seq(ds) ==
    IF ds = <<>> THEN [ds |-> ds, ret |-> -1, err |-> "ValueError"]
    ELSE LET r == PadFrom(ds, MaxLen(ds), 1)
         IN  [ds |-> r.ds, ret |-> IF r.err = "none" THEN MaxLen(ds) ELSE -1, err |-> r.err]

-----------------------------------------------------------------------------
\* No cell downstream of padding has run.
NotRun ==
    /\ mean_std_kp = <<>> /\ mean_std_lbl = <<>>
    /\ training_kp = <<>> /\ val_kp = <<>> /\ test_kp = <<>>
    /\ training_lbl = <<>> /\ val_lbl = <<>> /\ test_lbl = <<>>
    /\ epoch = 0
    /\ hidden = <<>> /\ val_h = <<>>
    /\ params = 0 /\ opt_state = 0
    /\ mode = "train"
    /\ loader = {}
    /\ tr_losses = <<>> /\ val_losses = <<>>
    /\ calls = <<>>
    /\ d_min = <<>> /\ d_max = <<>> /\ d_mean = <<>>

Init ==
    /\ NotRun
    /\ fs \in FileSystems
    /\ rec = 0
    /\ pc = "for"
    /\ files = <<>>
    /\ fi = 1
    /\ face_2D_seq = EmptyPair /\ face_3D_seq = EmptyPair
    /\ hand_2D_seq = EmptyPair /\ hand_3D_seq = EmptyPair
    /\ body_2D_seq = EmptyPair /\ body_3D_seq = EmptyPair
    /\ dataset = <<>> /\ groundtruth = <<>>
    /\ max_seq = -1
    /\ err = "none"
    /\ out = <<>>

\* get_keypoints: the for loop takes the next recording folder and calls
\* get_face, which lists and trims the frame files (lines 55, 60, 90-95)
ForRecording ==
    /\ pc = "for" /\ rec < Len(fs)
    /\ rec' = rec + 1
    /\ face_2D_seq' = EmptyPair /\ face_3D_seq' = EmptyPair
    /\ files' = DropFirst(RegularFiles(fs[rec + 1].hdFace3d))
    /\ fi' = 1
    /\ pc' = "get_face"
    /\ UNCHANGED <<downstream, fs, hand_2D_seq, hand_3D_seq, body_2D_seq, body_3D_seq,
                   dataset, groundtruth, max_seq, err, out>>

\* get_face reads one frame file (lines 95-110)
GetFaceFrame ==
    /\ pc = "get_face" /\ fi <= Len(files)
    /\ LET a == FaceFrame(face_2D_seq, face_3D_seq, rec, files[fi])
       IN  /\ face_2D_seq' = a.s2 /\ face_3D_seq' = a.s3
           /\ err' = a.err
           /\ pc' = IF a.err = "none" THEN "get_face" ELSE "raised"
    /\ fi' = fi + 1
    /\ UNCHANGED <<downstream, fs, rec, files, hand_2D_seq, hand_3D_seq, body_2D_seq,
                   body_3D_seq, dataset, groundtruth, max_seq, out>>

\* get_face returns (lines 111-113) and get_hands starts (lines 61, 130-134)
GetFaceReturn ==
    /\ pc = "get_face" /\ fi > Len(files)
    /\ out' = Append(out, "Face completed.")
    /\ hand_2D_seq' = EmptyPair /\ hand_3D_seq' = EmptyPair
    /\ files' = DropFirstAndLast(RegularFiles(fs[rec].hdHand3d))
    /\ fi' = 1
    /\ pc' = "get_hands"
    /\ UNCHANGED <<downstream, fs, rec, face_2D_seq, face_3D_seq, body_2D_seq, body_3D_seq,
                   dataset, groundtruth, max_seq, err>>

\* get_hands reads one frame file (lines 134-170)
GetHandsFrame ==
    /\ pc = "get_hands" /\ fi <= Len(files)
    /\ LET a == HandsFrame(hand_2D_seq, hand_3D_seq, rec, files[fi])
       IN  /\ hand_2D_seq' = a.s2 /\ hand_3D_seq' = a.s3
           /\ err' = a.err
           /\ pc' = IF a.err = "none" THEN "get_hands" ELSE "raised"
    /\ fi' = fi + 1
    /\ UNCHANGED <<downstream, fs, rec, files, face_2D_seq, face_3D_seq, body_2D_seq,
                   body_3D_seq, dataset, groundtruth, max_seq, out>>

\* get_hands returns (lines 171-172) and get_body starts (lines 62, 189-193)
GetHandsReturn ==
    /\ pc = "get_hands" /\ fi > Len(files)
    /\ out' = Append(out, "Hands completed.")
    /\ body_2D_seq' = EmptyPair /\ body_3D_seq' = EmptyPair
    /\ files' = DropLast(RegularFiles(fs[rec].hdPose3d_stage1_op25))
    /\ fi' = 1
    /\ pc' = "get_body"
    /\ UNCHANGED <<downstream, fs, rec, face_2D_seq, face_3D_seq, hand_2D_seq, hand_3D_seq,
                   dataset, groundtruth, max_seq, err>>

\* get_body reads one frame file (lines 193-208)
GetBodyFrame ==
    /\ pc = "get_body" /\ fi <= Len(files)
    /\ LET a == BodyFrame(body_2D_seq, body_3D_seq, rec, files[fi])
       IN  /\ body_2D_seq' = a.s2 /\ body_3D_seq' = a.s3
           /\ err' = a.err
           /\ pc' = IF a.err = "none" THEN "get_body" ELSE "raised"
    /\ fi' = fi + 1
    /\ UNCHANGED <<downstream, fs, rec, files, face_2D_seq, face_3D_seq, hand_2D_seq,
                   hand_3D_seq, dataset, groundtruth, max_seq, out>>

\* get_body returns (lines 209-210)
GetBodyReturn ==
    /\ pc = "get_body" /\ fi > Len(files)
    /\ out' = Append(out, "Body completed.")
    /\ pc' = "zip"
    /\ UNCHANGED <<downstream, fs, rec, files, fi, face_2D_seq, face_3D_seq, hand_2D_seq,
                   hand_3D_seq, body_2D_seq, body_3D_seq, dataset, groundtruth, max_seq, err>>

\* Mutant of CorpusAppend: the second person's sequence is appended first.
CorpusAppend_Swapped(ds, p1, p2) == Append(Append(ds, p2), p1)

\* dataset.append(p1); dataset.append(p2) (lines 68-71)
CorpusAppend(ds, p1, p2) == Append(Append(ds, p1), p2)

\* get_keypoints concatenates the modalities per slot and appends the two
\* slots to the corpus (lines 65-72)
Aggregate ==
    /\ pc = "zip"
    /\ LET vid_input == [i \in 1..2 |-> Zip3(face_2D_seq[i], hand_2D_seq[i], body_2D_seq[i])]
           vid_labels == [i \in 1..2 |-> Zip3(face_3D_seq[i], hand_3D_seq[i], body_3D_seq[i])]
       IN  /\ dataset' = CorpusAppend(dataset, vid_input[1], vid_input[2])
           /\ groundtruth' = CorpusAppend(groundtruth, vid_labels[1], vid_labels[2])
    /\ out' = Append(out, "Completed folder")
    /\ pc' = "for"
    /\ UNCHANGED <<downstream, fs, rec, files, fi, face_2D_seq, face_3D_seq, hand_2D_seq,
                   hand_3D_seq, body_2D_seq, body_3D_seq, max_seq, err>>

\* get_keypoints returns dataset, groundtruth (line 73)
GetKeypointsReturn ==
    /\ pc = "for" /\ rec = Len(fs)
    /\ pc' = "pad_dataset"
    /\ UNCHANGED <<downstream, fs, rec, files, fi, face_2D_seq, face_3D_seq, hand_2D_seq,
                   hand_3D_seq, body_2D_seq, body_3D_seq, dataset, groundtruth, max_seq,
                   err, out>>

\* max_seq = padding_seq(dataset) (line 303)
PadDataset ==
    /\ pc = "pad_dataset"
    /\ LET r == padding_seq(dataset)
       IN  /\ dataset' = r.ds
           /\ max_seq' = r.ret
           /\ err' = r.err
           /\ pc' = IF r.err = "none" THEN "pad_groundtruth" ELSE "pad_raised"
    /\ UNCHANGED <<downstream, fs, rec, files, fi, face_2D_seq, face_3D_seq, hand_2D_seq,
                   hand_3D_seq, body_2D_seq, body_3D_seq, groundtruth, out>>

\* Mutant of PadGroundtruth: the cell goes on without padding the targets.
PadGroundtruth_NotPadded ==
    /\ pc = "pad_groundtruth"
    /\ pc' = "done"
    /\ UNCHANGED <<downstream, fs, rec, files, fi, face_2D_seq, face_3D_seq, hand_2D_seq,
                   hand_3D_seq, body_2D_seq, body_3D_seq, dataset, groundtruth, max_seq,
                   err, out>>

\* padding_seq(groundtruth) (line 304)
PadGroundtruth ==
    /\ pc = "pad_groundtruth"
    /\ LET r == padding_seq(groundtruth)
       IN  /\ groundtruth' = r.ds
           /\ err' = r.err
           /\ pc' = IF r.err = "none" THEN "done" ELSE "pad_raised"
    /\ UNCHANGED <<downstream, fs, rec, files, fi, face_2D_seq, face_3D_seq, hand_2D_seq,
                   hand_3D_seq, body_2D_seq, body_3D_seq, dataset, max_seq, out>>

Next ==
    \/ ForRecording
    \/ GetFaceFrame
    \/ GetFaceReturn
    \/ GetHandsFrame
    \/ GetHandsReturn
    \/ GetBodyFrame
    \/ GetBodyReturn
    \/ Aggregate
    \/ GetKeypointsReturn
    \/ PadDataset
    \/ PadGroundtruth

Spec == Init /\ [][Next]_vars

-----------------------------------------------------------------------------
\* The single-keypoint notebook (LSTM_2D_to_3D-OneSingle_kp).

kp == 5

\* Folders under data_path: get_keypoints takes the slice [3:-1] of them.  The
\* folders outside the slice are never opened and are left empty here.  With
\* one folder in the slice its body folder holds arbitrary documents; with
\* more, each holds the same document in every frame.
EmptyRecording == Recording(<<>>, <<>>, <<>>)

BodyOnly(l) == Recording(<<>>, <<>>, l)

UniformBodyListings ==
    {Names(1, [k \in 1..n |-> d]) : n \in 0..MaxFiles, d \in UniformDocs}

KpSlices ==
    {<<BodyOnly(l)>> : l \in UNION {Listings(PeopleDocs, n, 1, n - 1) : n \in 0..MaxFiles}}
    \cup UNION {[1..R -> {BodyOnly(l) : l \in UniformBodyListings}] : R \in 0..MaxRec}

FileSystemsKp ==
    {[k \in 1..j |-> EmptyRecording] : j \in 0..3}
    \cup {<<EmptyRecording, EmptyRecording, EmptyRecording>> \o sl \o <<EmptyRecording>>
            : sl \in KpSlices}

\* get_body(path, kp), one person entry (lines 208-214)
BodyPersonKp(acc, r, f, p, person) ==
    IF acc.err # "none" \/ person.id = -1 THEN acc
    ELSE LET joints26 == Landmarks(r, 3, f, p, 0, 4 * BodyJoints)
             third_coord == joints26[kp * 4 + 2 + 1]
             two_coord == SubSeq(joints26, kp * 4 + 1, kp * 4 + 2)
         IN  Incr(AppendBoth(acc, two_coord, third_coord))

\* get_body(path, kp), zero fill after the person loop (lines 215-217)
BodyFillKp(acc) ==
    IF acc.err = "none" /\ acc.i < 2
    THEN AppendBoth(acc, <<0, 0>>, 0)
    ELSE acc

RECURSIVE BodyPeopleKp(_, _, _, _, _)
BodyPeopleKp(acc, r, f, people, p) ==
    IF p > Len(people) THEN acc
    ELSE BodyPeopleKp(BodyPersonKp(acc, r, f, p, people[p]), r, f, people, p + 1)

\* get_body(path, kp), the body of the loop over frame files (lines 204-217)
BodyFrameKp(s2, s3, r, file) ==
    IF file.raises # "none" THEN Raise(Acc(s2, s3, 0, "none"), file.raises)
    ELSE BodyFillKp(BodyPeopleKp(Acc(s2, s3, 0, "none"), r, file.name, file.people, 1))

\* seq.append(np.nan if labels else [0., 0.]) (line 281)
PadValueKp(labels) == IF labels THEN NaN ELSE <<0, 0>>

\* padding_seq(dataset, labels) of the single-keypoint notebook (lines 277-282)
padding_seq_kp(ds, labels) ==
    IF ds = <<>> THEN [ds |-> ds, ret |-> -1, err |-> "ValueError"]
    ELSE [ds |-> [k \in 1..Len(ds) |->
                    ds[k] \o [j \in 1..(MaxLen(ds) - Len(ds[k])) |-> PadValueKp(labels)]],
          ret |-> MaxLen(ds), err |-> "none"]

InitKp ==
    /\ NotRun
    /\ fs \in FileSystemsKp
    /\ rec = 3
    /\ pc = "for"
    /\ files = <<>>
    /\ fi = 1
    /\ face_2D_seq = EmptyPair /\ face_3D_seq = EmptyPair
    /\ hand_2D_seq = EmptyPair /\ hand_3D_seq = EmptyPair
    /\ body_2D_seq = EmptyPair /\ body_3D_seq = EmptyPair
    /\ dataset = <<>> /\ groundtruth = <<>>
    /\ max_seq = -1
    /\ err = "none"
    /\ out = <<>>

\* get_keypoints: the for loop over the folders [3:-1] takes the next folder
\* and calls get_body (lines 80, 87, 200-203)
ForRecordingKp ==
    /\ pc = "for" /\ rec + 1 <= Len(fs) - 1
    /\ rec' = rec + 1
    /\ body_2D_seq' = EmptyPair /\ body_3D_seq' = EmptyPair
    /\ files' = DropLast(RegularFiles(fs[rec + 1].hdPose3d_stage1_op25))
    /\ fi' = 1
    /\ pc' = "get_body"
    /\ UNCHANGED <<downstream, fs, face_2D_seq, face_3D_seq, hand_2D_seq, hand_3D_seq,
                   dataset, groundtruth, max_seq, err, out>>

\* get_body(path, kp) reads one frame file (lines 203-217)
GetBodyFrameKp ==
    /\ pc = "get_body" /\ fi <= Len(files)
    /\ LET a == BodyFrameKp(body_2D_seq, body_3D_seq, rec, files[fi])
       IN  /\ body_2D_seq' = a.s2 /\ body_3D_seq' = a.s3
           /\ err' = a.err
           /\ pc' = IF a.err = "none" THEN "get_body" ELSE "raised"
    /\ fi' = fi + 1
    /\ UNCHANGED <<downstream, fs, rec, files, face_2D_seq, face_3D_seq, hand_2D_seq,
                   hand_3D_seq, dataset, groundtruth, max_seq, out>>

\* get_body returns and get_keypoints appends slot 0 to the corpus
\* (lines 218-219, 90-95)
AppendSlotZeroKp ==
    /\ pc = "get_body" /\ fi > Len(files)
    /\ dataset' = Append(dataset, body_2D_seq[1])
    /\ groundtruth' = Append(groundtruth, body_3D_seq[1])
    /\ out' = out \o <<"Body completed.", "Completed folder">>
    /\ pc' = "for"
    /\ UNCHANGED <<downstream, fs, rec, files, fi, face_2D_seq, face_3D_seq, hand_2D_seq,
                   hand_3D_seq, body_2D_seq, body_3D_seq, max_seq, err>>

\* get_keypoints returns dataset, groundtruth (line 96)
GetKeypointsReturnKp ==
    /\ pc = "for" /\ rec + 1 > Len(fs) - 1
    /\ pc' = "pad_dataset"
    /\ UNCHANGED <<downstream, fs, rec, files, fi, face_2D_seq, face_3D_seq, hand_2D_seq,
                   hand_3D_seq, body_2D_seq, body_3D_seq, dataset, groundtruth, max_seq,
                   err, out>>

\* max_seq = padding_seq(dataset) (line 284)
PadDatasetKp ==
    /\ pc = "pad_dataset"
    /\ LET r == padding_seq_kp(dataset, FALSE)
       IN  /\ dataset' = r.ds
           /\ max_seq' = r.ret
           /\ err' = r.err
           /\ pc' = IF r.err = "none" THEN "pad_groundtruth" ELSE "pad_raised"
    /\ UNCHANGED <<downstream, fs, rec, files, fi, face_2D_seq, face_3D_seq, hand_2D_seq,
                   hand_3D_seq, body_2D_seq, body_3D_seq, groundtruth, out>>

\* padding_seq(groundtruth, True) (line 285)
PadGroundtruthKp ==
    /\ pc = "pad_groundtruth"
    /\ LET r == padding_seq_kp(groundtruth, TRUE)
       IN  /\ groundtruth' = r.ds
           /\ err' = r.err
           /\ pc' = IF r.err = "none" THEN "done" ELSE "pad_raised"
    /\ UNCHANGED <<downstream, fs, rec, files, fi, face_2D_seq, face_3D_seq, hand_2D_seq,
                   hand_3D_seq, body_2D_seq, body_3D_seq, dataset, max_seq, out>>

NextKp ==
    \/ ForRecordingKp
    \/ GetBodyFrameKp
    \/ AppendSlotZeroKp
    \/ GetKeypointsReturnKp
    \/ PadDatasetKp
    \/ PadGroundtruthKp

SpecKp == InitKp /\ [][NextKp]_vars

-----------------------------------------------------------------------------
\* The cells between padding and the data loaders (single-keypoint notebook):
\* conversion to arrays, normalize, nan_to_num, the train/validation/test split.
\*
\* SpecNorm runs these cells on small padded corpora; SpecSplit runs the split
\* cell on tensors of up to MaxSlots slots.

MaxSteps == 2      \* time steps of a padded sequence
MaxSlots == 20     \* slots of a tensor handed to the split cell

\* groups of variables, for the UNCHANGED clauses
extraction == <<fs, rec, files, fi, face_2D_seq, face_3D_seq, hand_2D_seq, hand_3D_seq,
                body_2D_seq, body_3D_seq, max_seq>>
training == <<epoch, hidden, val_h, params, opt_state, mode, loader, tr_losses,
              val_losses, calls>>
slices == <<training_kp, val_kp, test_kp, training_lbl, val_lbl, test_lbl>>

\* A float of the arrays is num / sqrt(rad).  A value read from the lists is
\* x / sqrt(1); 0 / sqrt(0) is NaN, the result of 0/0 and of any operation on
\* NaN.
Float(x) == [num |-> x, rad |-> 1]
NaNf == [num |-> 0, rad |-> 0]
IsNaN(v) == v.rad = 0
ToFloat(x) == IF x = NaN THEN NaNf ELSE Float(x)

\* Input: padded corpora.  Sequence n has len real steps, whose values depend
\* on n, the step and a pattern p, followed by padding up to L steps.  The
\* targets are padded with nan; the inputs with [0., 0.], as padding_seq(dataset)
\* does, or with [nan, nan], normalize being a function of any float tensor.
PaddedInput(n, len, p, L, pad) ==
    [t \in 1..L |-> IF t <= len THEN <<p + t, n + 2>> ELSE <<pad, pad>>]

PaddedTarget(n, len, p, L) ==
    [t \in 1..L |-> IF t <= len THEN p * t + n ELSE NaN]

\* <<len, p>> of one sequence
SlotShapes(L) == {<<0, 1>>} \cup ((1..L) \X {1, 2})

CorporaOf(N, L) ==
    {[ds |-> [n \in 1..N |-> PaddedInput(n, sh[n][1], sh[n][2], L, pad)],
      gt |-> [n \in 1..N |-> PaddedTarget(n, sh[n][1], sh[n][2], L)]]
        : sh \in [1..N -> SlotShapes(L)], pad \in {0, NaN}}

PaddedCorpora == UNION {CorporaOf(N, L) : N \in 1..MaxRec, L \in 0..MaxSteps}

\* np.asarray(dataset) (line 320): an N x L x 2 array; with L = 0 the array
\* has two dimensions only, with N = 0 one
asarray(ds) == [n \in 1..Len(ds) |-> [t \in 1..Len(ds[n]) |->
                    [c \in 1..Len(ds[n][t]) |-> ToFloat(ds[n][t][c])]]]

ndim(ds) == IF ds = <<>> THEN 1 ELSE IF ds[1] = <<>> THEN 2 ELSE 3

\* np.expand_dims(np.asarray(groundtruth), axis=2) (line 321): N x L x 1
expand_dims(gt) == [n \in 1..Len(gt) |-> [t \in 1..Len(gt[n]) |-> <<ToFloat(gt[n][t])>>]]

\* the positions <<n, t, c>> of a tensor
Positions(tensor) ==
    UNION {UNION {{<<n, t, c>> : c \in 1..Len(tensor[n][t])}
                     : t \in 1..Len(tensor[n])} : n \in 1..Len(tensor)}

\* the positions of tensor[:, :, j::coordinates]
SubChannel(tensor, j, coordinates) ==
    {x \in Positions(tensor) : (x[3] - 1) % coordinates = j}

\* those that do not hold NaN
NonNaN(tensor, j, coordinates) ==
    {x \in SubChannel(tensor, j, coordinates) : ~IsNaN(tensor[x[1]][x[2]][x[3]])}

RECURSIVE SumOver(_, _, _)
SumOver(tensor, S, power) ==
    IF S = {} THEN 0
    ELSE LET x == CHOOSE y \in S : TRUE
             v == tensor[x[1]][x[2]][x[3]].num
         IN  (IF power = 2 THEN v * v ELSE v) + SumOver(tensor, S \ {x}, power)

\* Mutant of nanmean: the missing entries are counted, as zeros.
nanmean_ZeroForNaN(tensor, j, coordinates) ==
    [num |-> SumOver(tensor, NonNaN(tensor, j, coordinates), 1),
     den |-> Cardinality(SubChannel(tensor, j, coordinates))]

\* np.nanmean of a sub-channel (line 332): sum / count over the entries that
\* are not NaN, as the fraction num/den; 0/0, which is NaN, when there is none
nanmean(tensor, j, coordinates) ==
    LET S == NonNaN(tensor, j, coordinates)
    IN  [num |-> SumOver(tensor, S, 1), den |-> Cardinality(S)]

\* np.nanstd of a sub-channel (line 333): sqrt(mean of squares - square of the
\* mean) over the entries that are not NaN, as sqrt(sq)/den with
\* sq = count * sum of squares - (sum)^2 and den = count; NaN when count = 0
nanstd(tensor, j, coordinates) ==
    LET S == NonNaN(tensor, j, coordinates)
        n == Cardinality(S)
        sum == SumOver(tensor, S, 1)
    IN  [sq |-> n * SumOver(tensor, S, 2) - sum * sum, den |-> n]

\* np.divide(np.subtract(x, mean), std) (lines 336-337):
\* (x - num/den) / (sqrt(sq)/den) = (den * x - num) / sqrt(sq); NaN when x is
\* NaN or the statistics are, and 0/0 = NaN when the standard deviation is 0
Standardize(x, mean, std) ==
    IF IsNaN(x) \/ mean.den = 0 THEN NaNf
    ELSE [num |-> mean.den * x.num - mean.num, rad |-> std.sq]

\* Mutant of normalize: an all-NaN sub-channel is an error.
normalize_Strict(tensor, coordinates) ==
    IF \E j \in 0..(coordinates - 1) : NonNaN(tensor, j, coordinates) = {}
    THEN [tensor |-> tensor, ret |-> <<>>, err |-> "ValueError"]
    ELSE [tensor |-> [n \in 1..Len(tensor) |-> [t \in 1..Len(tensor[n]) |->
                        [c \in 1..Len(tensor[n][t]) |->
                            Standardize(tensor[n][t][c],
                                        nanmean(tensor, (c - 1) % coordinates, coordinates),
                                        nanstd(tensor, (c - 1) % coordinates, coordinates))]]],
          ret |-> [i \in 1..coordinates |-> <<nanmean(tensor, i - 1, coordinates),
                                             nanstd(tensor, i - 1, coordinates)>>],
          err |-> "none"]

\* normalize(tensor, coordinates) on a 3-dimensional array (lines 331-339): the
\* statistics are taken first, then the tensor is standardized in place; numpy
\* warns on an all-NaN sub-channel and on 0/0, it does not raise
normalize(tensor, coordinates) ==
    [tensor |-> [n \in 1..Len(tensor) |-> [t \in 1..Len(tensor[n]) |->
                    [c \in 1..Len(tensor[n][t]) |->
                        Standardize(tensor[n][t][c],
                                    nanmean(tensor, (c - 1) % coordinates, coordinates),
                                    nanstd(tensor, (c - 1) % coordinates, coordinates))]]],
     ret |-> [i \in 1..coordinates |-> <<nanmean(tensor, i - 1, coordinates),
                                        nanstd(tensor, i - 1, coordinates)>>],
     err |-> "none"]

\* np.nan_to_num (lines 360-361): NaN becomes 0.0; torch.tensor keeps the values
nan_to_num(tensor) ==
    [n \in 1..Len(tensor) |-> [t \in 1..Len(tensor[n]) |->
        [c \in 1..Len(tensor[n][t]) |->
            IF IsNaN(tensor[n][t][c]) THEN Float(0) ELSE tensor[n][t][c]]]]

\* Mutant of round: the product is truncated.
round_Truncated(percent, l) == (percent * l) \div 100

\* round(0.67*l), round(0.85*l) (lines 382-383), for the factor percent/100:
\* Python rounds to the nearest integer and, when the product ends in .5, to
\* the even one.  For l < 750 the double product rounds as the exact one does.
round(percent, l) ==
    LET q == (percent * l) \div 100
        r == (percent * l) % 100
    IN  IF 2 * r < 100 THEN q
        ELSE IF 2 * r > 100 THEN q + 1
        ELSE IF q % 2 = 0 THEN q ELSE q + 1

\* t[lo:hi] for 0 <= lo, hi <= len(t)
PySlice(tensor, lo, hi) == SubSeq(tensor, lo + 1, hi)

\* Mutant of split: the validation slice starts one slot late.
split_SkipsOne(tensor, l) ==
    [training |-> PySlice(tensor, 0, round(67, l)),
     val      |-> PySlice(tensor, round(67, l) + 1, round(85, l)),
     test     |-> PySlice(tensor, round(85, l), Len(tensor))]

\* Mutant of split: the boundaries are moved down to the start of a recording's
\* pair of slots.
split_ByRecording(tensor, l) ==
    LET a == 2 * (round(67, l) \div 2)
        b == 2 * (round(85, l) \div 2)
    IN  [training |-> PySlice(tensor, 0, a),
         val      |-> PySlice(tensor, a, b),
         test     |-> PySlice(tensor, b, Len(tensor))]

\* t[:round(0.67*l)], t[round(0.67*l):round(0.85*l)], t[round(0.85*l):]
\* (lines 382-383)
split(tensor, l) ==
    [training |-> PySlice(tensor, 0, round(67, l)),
     val      |-> PySlice(tensor, round(67, l), round(85, l)),
     test     |-> PySlice(tensor, round(85, l), Len(tensor))]

\* the state the cells of this section start from: the extraction is over
ExtractionOver ==
    /\ fs = <<>> /\ rec = 0 /\ files = <<>> /\ fi = 1
    /\ face_2D_seq = EmptyPair /\ face_3D_seq = EmptyPair
    /\ hand_2D_seq = EmptyPair /\ hand_3D_seq = EmptyPair
    /\ body_2D_seq = EmptyPair /\ body_3D_seq = EmptyPair
    /\ err = "none" /\ out = <<>>

\* after the padding cell
InitNorm ==
    /\ NotRun /\ ExtractionOver
    /\ \E c \in PaddedCorpora : dataset = c.ds /\ groundtruth = c.gt
    /\ max_seq = MaxLen(dataset)
    /\ pc = "asarray"

\* from python lists to numpy ndarray (lines 320-322)
AsArray ==
    /\ pc = "asarray"
    /\ dataset' = asarray(dataset)
    /\ groundtruth' = expand_dims(groundtruth)
    /\ out' = Append(out, "dataset.shape groundtruth.shape")
    /\ pc' = "normalize_kp"
    /\ UNCHANGED <<statistics, extraction, training, slices, mean_std_kp, mean_std_lbl, err>>

\* _ = normalize(dataset, 2) (line 341); tensor[:, :, i::coordinates] raises
\* IndexError on an array of fewer than three dimensions
NormalizeDataset ==
    /\ pc = "normalize_kp"
    /\ IF ndim(dataset) < 3
       THEN /\ err' = "IndexError" /\ pc' = "norm_raised"
            /\ UNCHANGED <<dataset, mean_std_kp>>
       ELSE LET r == normalize(dataset, 2)
            IN  /\ dataset' = r.tensor
                /\ mean_std_kp' = r.ret
                /\ err' = r.err
                /\ pc' = IF r.err = "none" THEN "normalize_lbl" ELSE "norm_raised"
    /\ UNCHANGED <<statistics, extraction, training, slices, groundtruth, mean_std_lbl, out>>

\* mz, stdz = normalize(groundtruth)[0] (line 342)
NormalizeGroundtruth ==
    /\ pc = "normalize_lbl"
    /\ LET r == normalize(groundtruth, 1)
       IN  /\ groundtruth' = r.tensor
           /\ mean_std_lbl' = r.ret
           /\ err' = r.err
           /\ pc' = IF r.err = "none" THEN "nan_to_num" ELSE "norm_raised"
    /\ UNCHANGED <<statistics, extraction, training, slices, dataset, mean_std_kp, out>>

\* from numpy arrays to pytorch tensors (lines 360-362)
NanToNum ==
    /\ pc = "nan_to_num"
    /\ dataset' = nan_to_num(dataset)
    /\ groundtruth' = nan_to_num(groundtruth)
    /\ out' = Append(out, "dataset.shape groundtruth.shape")
    /\ pc' = "split_kp"
    /\ UNCHANGED <<statistics, extraction, training, slices, mean_std_kp, mean_std_lbl, err>>

\* l1, l2 = len(dataset), len(groundtruth) and the split of dataset
\* (lines 380-382)
SplitKp ==
    /\ pc = "split_kp"
    /\ LET l1 == Len(dataset)
       IN  /\ training_kp' = split(dataset, l1).training
           /\ val_kp' = split(dataset, l1).val
           /\ test_kp' = split(dataset, l1).test
    /\ pc' = "split_lbl"
    /\ UNCHANGED <<statistics, extraction, training, dataset, groundtruth, mean_std_kp, mean_std_lbl,
                   training_lbl, val_lbl, test_lbl, err, out>>

\* Mutant of SplitLbl: the targets' validation slice starts one slot late.
SplitLbl_Shifted ==
    /\ pc = "split_lbl"
    /\ LET l2 == Len(groundtruth)
       IN  /\ training_lbl' = split_SkipsOne(groundtruth, l2).training
           /\ val_lbl' = split_SkipsOne(groundtruth, l2).val
           /\ test_lbl' = split_SkipsOne(groundtruth, l2).test
    /\ out' = out \o <<"training_kp.shape val_kp.shape test_kp.shape",
                       "training_lbl.shape val_lbl.shape test_lbl.shape">>
    /\ pc' = "loaders"
    /\ UNCHANGED <<statistics, extraction, training, dataset, groundtruth, mean_std_kp, mean_std_lbl,
                   training_kp, val_kp, test_kp, err>>

\* the split of groundtruth and the two prints (lines 383-385)
SplitLbl ==
    /\ pc = "split_lbl"
    /\ LET l2 == Len(groundtruth)
       IN  /\ training_lbl' = split(groundtruth, l2).training
           /\ val_lbl' = split(groundtruth, l2).val
           /\ test_lbl' = split(groundtruth, l2).test
    /\ out' = out \o <<"training_kp.shape val_kp.shape test_kp.shape",
                       "training_lbl.shape val_lbl.shape test_lbl.shape">>
    /\ pc' = "loaders"
    /\ UNCHANGED <<statistics, extraction, training, dataset, groundtruth, mean_std_kp, mean_std_lbl,
                   training_kp, val_kp, test_kp, err>>

NextNorm ==
    \/ AsArray
    \/ NormalizeDataset
    \/ NormalizeGroundtruth
    \/ NanToNum
    \/ SplitKp
    \/ SplitLbl

SpecNorm == InitNorm /\ [][NextNorm]_vars

\* Input of the split cell alone: tensors of N slots and L time steps; slot n
\* holds n in every entry, so that the slots are told apart.
SlotTensor(N, L, width) ==
    [n \in 1..N |-> [t \in 1..L |-> [c \in 1..width |-> Float(n)]]]

InitSplit ==
    /\ NotRun /\ ExtractionOver
    /\ \E N \in 0..MaxSlots, L \in 1..MaxSteps :
          /\ dataset = SlotTensor(N, L, 2)
          /\ groundtruth = SlotTensor(N, L, 1)
          /\ max_seq = L
    /\ pc = "split_kp"

NextSplit ==
    \/ SplitKp
    \/ SplitLbl

SpecSplit == InitSplit /\ [][NextSplit]_vars

-----------------------------------------------------------------------------
\* The training cell and the test cell (single-keypoint notebook).
\*
\* The network is not interpreted.  The parameters are the number of
\* optimizer steps applied to them; a recurrent state is the list of the
\* forward calls it went through since it was zero, each call named by the
\* minibatch it consumed and the parameters it ran with, together with a flag
\* telling whether the state is still attached to a computation graph.

MaxCorpus == 6     \* slots of the corpus the loaders were built from
NUM_EPOCHS == 13

tensors == <<dataset, groundtruth, mean_std_kp, mean_std_lbl>>

\* init_hidden (lines 523-527): zeros
init_hidden == [val |-> <<>>, graph |-> FALSE]

\* Mutant of Detach: the state is set back to zero.
Detach_Zeroed(state) == [val |-> <<>>, graph |-> FALSE]

\* tuple([e.data for e in h]) (lines 623, 649, 754): the same values, cut off
\* from the graph
Detach(state) == [val |-> state.val, graph |-> FALSE]

\* model(inputs, state) (lines 628, 651, 756): the returned recurrent state;
\* inputs is the minibatch, named by its partition and the slot's index in it
Forward(inputs, state) ==
    [val |-> Append(state.val, <<inputs, params>>), graph |-> TRUE]

\* labels (lines 622, 648, 753): the targets of a minibatch, one slot of the
\* partition's target tensor, batch_size being 1
LabelsOf(inputs) ==
    IF inputs[1] = "training" THEN training_lbl[inputs[2]]
    ELSE IF inputs[1] = "val" THEN val_lbl[inputs[2]]
    ELSE test_lbl[inputs[2]]

IsZero(v) == v.rad # 0 /\ v.num = 0

\* Mutant of MeanElements: the elements whose target is 0 are left out.
MeanElements_Masked(labels) ==
    UNION {{<<t, c>> : c \in {d \in 1..Len(labels[t]) : ~IsZero(labels[t][d])}}
              : t \in 1..Len(labels)}

\* nn.MSELoss() (line 577; lines 630, 652, 757) and .abs().mean() (lines 637,
\* 653, 759) reduce with the mean over all the elements of output and labels:
\* the elements <<time step, coordinate>> the mean is taken over
MeanElements(labels) ==
    UNION {{<<t, c>> : c \in 1..Len(labels[t])} : t \in 1..Len(labels)}

\* one forward call as it is recorded in calls, with the elements its loss
\* and its MPJPE entry are means over
Call(phase, inputs, state) ==
    [phase |-> phase, epoch |-> epoch, inputs |-> inputs, given |-> state,
     returned |-> Forward(inputs, state), params |-> params,
     loss |-> MeanElements(LabelsOf(inputs)),
     mpjpe |-> MeanElements(LabelsOf(inputs))]

\* the minibatches one iteration of a DataLoader with batch_size = 1 yields
\* (lines 409-417): one per slot of the partition, in a random order
Batches(partition) == 1..Len(partition)

\* np.mean over the losses of the calls numbered from..to
MeanLoss(from, to) == [mean_of |-> from..to]

\* val_losses[1][-1] (line 655): the list's entry 1, or IndexError (list index
\* out of range); the entry is a float, and subscripting it raises IndexError
\* (invalid index to scalar variable)
LoggedValLoss(losses) ==
    IF Len(losses) < 2 THEN [err |-> "IndexError"]
    ELSE [err |-> "IndexError"]

\* after the cells that build the loaders, the model and the optimizer: a
\* corpus of N slots split into three non-empty partitions
InitTrain ==
    /\ ExtractionOver
    /\ \E N \in 1..MaxCorpus :
          /\ dataset = SlotTensor(N, 1, 2)
          /\ groundtruth = SlotTensor(N, 1, 1)
          /\ training_kp = split(dataset, N).training
          /\ val_kp = split(dataset, N).val
          /\ test_kp = split(dataset, N).test
          /\ training_lbl = split(groundtruth, N).training
          /\ val_lbl = split(groundtruth, N).val
          /\ test_lbl = split(groundtruth, N).test
    /\ training_kp # <<>> /\ val_kp # <<>> /\ test_kp # <<>>
    /\ max_seq = 1
    /\ mean_std_kp = normalize(dataset, 2).ret
    /\ mean_std_lbl = normalize(groundtruth, 1).ret
    /\ epoch = 0
    /\ hidden = <<>> /\ val_h = <<>>
    /\ params = 0 /\ opt_state = 0
    /\ mode = "train"
    /\ loader = {}
    /\ tr_losses = <<>> /\ val_losses = <<>>
    /\ calls = <<>>
    /\ d_min = <<>> /\ d_max = <<>> /\ d_mean = <<>>
    /\ pc = "train_cell"

\* the head of the training cell (lines 610-616)
TrainCell ==
    /\ pc = "train_cell"
    /\ tr_losses' = <<>> /\ val_losses' = <<>>
    /\ mode' = "train"
    /\ epoch' = 0
    /\ pc' = "epoch"
    /\ UNCHANGED <<statistics, extraction, tensors, slices, hidden, val_h, params, opt_state, loader,
                   calls, err, out>>

\* an epoch starts (lines 617-622)
EpochStart ==
    /\ pc = "epoch"
    /\ hidden' = init_hidden
    /\ loader' = Batches(training_kp)
    /\ pc' = "train_loop"
    /\ UNCHANGED <<statistics, extraction, tensors, slices, epoch, val_h, params, opt_state, mode,
                   tr_losses, val_losses, calls, err, out>>

\* one training minibatch (lines 622-637)
TrainBatch ==
    /\ pc = "train_loop"
    /\ \E b \in loader :
          LET call == Call("train", <<"training", b>>, Detach(hidden))
          IN  /\ hidden' = call.returned
              /\ calls' = Append(calls, call)
              /\ loader' = loader \ {b}
    /\ params' = params + 1
    /\ opt_state' = opt_state + 1
    /\ UNCHANGED <<statistics, extraction, tensors, slices, epoch, val_h, mode, tr_losses, val_losses,
                   pc, err, out>>

\* the training loader is exhausted; the validation pass starts (lines 638-647)
ValidationStart ==
    /\ pc = "train_loop" /\ loader = {}
    /\ tr_losses' = Append(tr_losses, MeanLoss(Len(calls) - Len(training_kp) + 1, Len(calls)))
    /\ val_h' = init_hidden
    /\ mode' = "eval"
    /\ loader' = Batches(val_kp)
    /\ pc' = "val_loop"
    /\ UNCHANGED <<statistics, extraction, tensors, slices, epoch, hidden, params, opt_state,
                   val_losses, calls, err, out>>

\* Mutant of ValBatch: the validation minibatch also updates the parameters.
ValBatch_Updating ==
    /\ pc = "val_loop"
    /\ \E b \in loader :
          LET call == Call("val", <<"val", b>>, Detach(val_h))
          IN  /\ val_h' = call.returned
              /\ calls' = Append(calls, call)
              /\ loader' = loader \ {b}
    /\ params' = params + 1
    /\ opt_state' = opt_state + 1
    /\ UNCHANGED <<statistics, extraction, tensors, slices, epoch, hidden, mode, tr_losses, val_losses,
                   pc, err, out>>

\* one validation minibatch (lines 648-653)
ValBatch ==
    /\ pc = "val_loop"
    /\ \E b \in loader :
          LET call == Call("val", <<"val", b>>, Detach(val_h))
          IN  /\ val_h' = call.returned
              /\ calls' = Append(calls, call)
              /\ loader' = loader \ {b}
    /\ UNCHANGED <<statistics, extraction, tensors, slices, epoch, hidden, params, opt_state, mode,
                   tr_losses, val_losses, pc, err, out>>

\* the validation loader is exhausted: the epoch's validation loss is logged
\* and the epoch reported (lines 654-664), then the loop goes on or ends
\* (lines 617, 666-670)
EpochEnd ==
    /\ pc = "val_loop" /\ loader = {}
    /\ val_losses' = Append(val_losses, MeanLoss(Len(calls) - Len(val_kp) + 1, Len(calls)))
    /\ IF LoggedValLoss(val_losses').err # "none"
       THEN /\ err' = LoggedValLoss(val_losses').err
            /\ pc' = "train_raised"
            /\ UNCHANGED <<mode, out, epoch>>
       ELSE /\ mode' = "train"
            /\ out' = Append(out, [line |-> "Finished epoch", epoch |-> epoch + 1,
                                   loss |-> tr_losses[Len(tr_losses)],
                                   val_loss |-> val_losses'[Len(val_losses')],
                                   mpjpe_times |-> mean_std_lbl[1][2]])
            /\ epoch' = epoch + 1
            /\ pc' = IF epoch + 1 < NUM_EPOCHS THEN "epoch" ELSE "trained"
            /\ UNCHANGED err
    /\ UNCHANGED <<statistics, extraction, tensors, slices, hidden, val_h, params, opt_state, loader,
                   tr_losses, calls>>

\* the head of the test cell (lines 748-752), run after the training cell
TestStart ==
    /\ pc \in {"train_raised", "trained"}
    /\ hidden' = init_hidden
    /\ mode' = "eval"
    /\ loader' = Batches(test_kp)
    /\ pc' = "test_loop"
    /\ UNCHANGED <<statistics, extraction, tensors, slices, epoch, val_h, params, opt_state,
                   tr_losses, val_losses, calls, err, out>>

\* one test minibatch (lines 753-759)
TestBatch ==
    /\ pc = "test_loop"
    /\ \E b \in loader :
          LET call == Call("test", <<"test", b>>, Detach(hidden))
          IN  /\ hidden' = call.returned
              /\ calls' = Append(calls, call)
              /\ loader' = loader \ {b}
    /\ UNCHANGED <<statistics, extraction, tensors, slices, epoch, val_h, params, opt_state, mode,
                   tr_losses, val_losses, pc, err, out>>

\* the test loader is exhausted; the result is printed (lines 760, 778)
TestEnd ==
    /\ pc = "test_loop" /\ loader = {}
    /\ out' = Append(out, [line |-> "MPJPE, Test loss",
                           loss |-> MeanLoss(Len(calls) - Len(test_kp) + 1, Len(calls)),
                           mpjpe_times |-> mean_std_lbl[1][2]])
    /\ pc' = "tested"
    /\ UNCHANGED <<statistics, extraction, tensors, slices, epoch, hidden, val_h, params, opt_state,
                   mode, loader, tr_losses, val_losses, calls, err>>

NextTrain ==
    \/ TrainCell
    \/ EpochStart
    \/ TrainBatch
    \/ ValidationStart
    \/ ValBatch
    \/ EpochEnd
    \/ TestStart
    \/ TestBatch
    \/ TestEnd

SpecTrain == InitTrain /\ [][NextTrain]_vars

-----------------------------------------------------------------------------
\* The statistics cell of the full-keypoint notebook: stats(groundtruth) on the
\* padded depth tensor, and the cell that prints what it returns.
\*
\* The tensor keeps the encoding of the lists it was built from: a coordinate
\* is an integer >= 0 and np.nan is NaN.  A difference of two coordinates is an
\* integer >= 0 or NaN; a mean is the fraction num/den in lowest terms, 0/0
\* being NaN.

\* np.inf (lines 412, 417): above every difference of the model
inf == 1000000

\* a < b on floats: False when either is NaN
Less(a, b) == a # NaN /\ b # NaN /\ a < b

\* np.abs(np.subtract(a, b)) (line 422)
AbsDiff(a, b) == IF a = NaN \/ b = NaN THEN NaN ELSE IF a < b THEN b - a ELSE a - b

RECURSIVE Gcd(_, _)
Gcd(a, b) == IF b = 0 THEN a ELSE Gcd(b, a % b)

Fraction(num, den) ==
    IF den = 0 THEN [num |-> 0, den |-> 0]
    ELSE [num |-> num \div Gcd(num, den), den |-> den \div Gcd(num, den)]

\* the body of the loops over i and j (lines 422-425): frame_min and frame_max
\* are replaced only when the comparison with m is True; frame_diff is kept as
\* the sum and the count of its entries that are not NaN, which is all that
\* np.nanmean reads of it
PairStep(acc, m) ==
    [min |-> IF Less(m, acc.min) THEN m ELSE acc.min,
     max |-> IF Less(acc.max, m) THEN m ELSE acc.max,
     sum |-> IF m = NaN THEN acc.sum ELSE acc.sum + m,
     cnt |-> IF m = NaN THEN acc.cnt ELSE acc.cnt + 1]

\* for j in range(i+1, hi) (lines 421, 431, 441); i, j are the Python indices.
\* The test on next.cnt, which is always true, makes TLC evaluate the
\* accumulator at every step, as the loop does, and not as one nested
\* expression at the end.
RECURSIVE ForJ(_, _, _, _, _)
ForJ(frame, i, j, hi, acc) ==
    IF j >= hi THEN acc
    ELSE LET next == PairStep(acc, AbsDiff(frame[i + 1], frame[j + 1]))
         IN  IF next.cnt >= 0 THEN ForJ(frame, i, j + 1, hi, next) ELSE next

\* for i in range(lo, hi) (lines 420, 430, 440)
RECURSIVE ForI(_, _, _, _)
ForI(frame, i, hi, acc) ==
    IF i >= hi THEN acc
    ELSE LET next == ForJ(frame, i, i + 1, hi, acc)
         IN  IF next.cnt >= 0 THEN ForI(frame, i + 1, hi, next) ELSE next

\* the index ranges of the three keypoint groups: range(70), range(70, 112),
\* range(112, len(frame))
GroupRange(frame, g) ==
    IF g = 1 THEN <<0, 70>> ELSE IF g = 2 THEN <<70, 112>> ELSE <<112, Len(frame)>>

\* frame_min, frame_max and frame_diff of one group after its loops
\* (lines 417-425)
GroupLoops(frame, g) ==
    ForI(frame, GroupRange(frame, g)[1], GroupRange(frame, g)[2],
         [min |-> inf, max |-> 0, sum |-> 0, cnt |-> 0])

\* Input: frames.  A frame is named by its kind: 0 is the zero fill, a > 0 a
\* detection whose c-th coordinate is a * c, NaN a padding frame.
FrameKinds == 0..2

FrameOf(a, width) == [c \in 1..width |-> IF a = NaN THEN NaN ELSE a * c]

DepthFrames == {FrameOf(a, FaceZero3D + HandsZero3D + BodyZero3D) : a \in FrameKinds \cup {NaN}}

\* GroupLoops tabulated over the depth frames of the model: the loops of a
\* frame are run once for each frame value, not once for each state
FrameTable == [frame \in DepthFrames |-> [g \in 1..3 |-> GroupLoops(frame, g)]]

FrameStats(frame, g) == FrameTable[frame][g]

\* the end of a frame for one group (lines 426-428): vid_min, vid_max are
\* replaced when the frame's value is smaller / larger, and
\* np.nanmean(frame_diff) is appended to frame_means
FrameEnd(acc, fr) ==
    [min |-> IF Less(fr.min, acc.min) THEN fr.min ELSE acc.min,
     max |-> IF Less(acc.max, fr.max) THEN fr.max ELSE acc.max,
     frame_means |-> Append(acc.frame_means, Fraction(fr.sum, fr.cnt))]

\* for frame in vid (lines 416-449), for one group
RECURSIVE ForFrame(_, _, _, _)
ForFrame(vid, t, g, acc) ==
    IF t > Len(vid) THEN acc
    ELSE LET next == FrameEnd(acc, FrameStats(vid[t], g))
         IN  IF Len(next.frame_means) = t THEN ForFrame(vid, t + 1, g, next) ELSE next

\* the sum of the fractions of a list that are not NaN
RECURSIVE SumFractions(_, _)
SumFractions(means, k) ==
    IF k > Len(means) THEN [num |-> 0, den |-> 1]
    ELSE LET rest == SumFractions(means, k + 1)
         IN  IF means[k].den = 0 THEN rest
             ELSE Fraction(means[k].num * rest.den + rest.num * means[k].den,
                           means[k].den * rest.den)

Present(means) == Cardinality({k \in 1..Len(means) : means[k].den # 0})

\* Mutant of NanMeanOfMeans: the mean is taken over all the frames, a frame
\* without a mean counting as 0.
NanMeanOfMeans_AllFrames(means) ==
    Fraction(SumFractions(means, 1).num, SumFractions(means, 1).den * Len(means))

\* np.nanmean(frame_means[g]) (line 452): over the frames whose mean is not
\* NaN; NaN when there is none
NanMeanOfMeans(means) ==
    Fraction(SumFractions(means, 1).num, SumFractions(means, 1).den * Present(means))

\* one iteration of `for vid in tensor` (lines 412-452): what is appended to
\* d_min, d_max and d_mean
StatsOfVideo(vid) ==
    LET group == [g \in 1..3 |-> ForFrame(vid, 1, g, [min |-> inf, max |-> 0,
                                                      frame_means |-> <<>>])]
    IN  [min  |-> [g \in 1..3 |-> group[g].min],
         max  |-> [g \in 1..3 |-> group[g].max],
         mean |-> [g \in 1..3 |-> NanMeanOfMeans(group[g].frame_means)]]

\* Input: the padded corpus of two recordings' slots, each video a list of
\* frame kinds.  The first video has max_seq frames of one kind a > 0; the
\* second has 1..max_seq frames of any kind, then padding.
VideosOf(L) ==
    UNION {{[t \in 1..L |-> IF t <= len THEN k[t] ELSE NaN] : k \in [1..len -> FrameKinds]}
             : len \in 1..L}

StatsCorpora ==
    UNION {{<<[t \in 1..L |-> a], v>> : a \in FrameKinds \ {0}, v \in VideosOf(L)}
             : L \in 1..MaxSteps}

TensorOf(c, width) == [n \in 1..Len(c) |-> [t \in 1..Len(c[n]) |-> FrameOf(c[n][t], width)]]

\* after the padding cell and np.asarray (lines 303-304, 322-323)
InitStats ==
    /\ NotRun /\ ExtractionOver
    /\ \E c \in StatsCorpora :
          /\ dataset = TensorOf(c, FaceZero2D + HandsZero2D + BodyZero2D)
          /\ groundtruth = TensorOf(c, FaceZero3D + HandsZero3D + BodyZero3D)
    /\ max_seq = MaxLen(dataset)
    /\ pc = "stats"

\* stats analyses the next video of the tensor (lines 411-453)
StatsVideo ==
    /\ pc = "stats" /\ Len(d_min) < Len(groundtruth)
    /\ LET s == StatsOfVideo(groundtruth[Len(d_min) + 1])
       IN  /\ d_min' = Append(d_min, s.min)
           /\ d_max' = Append(d_max, s.max)
           /\ d_mean' = Append(d_mean, s.mean)
    /\ UNCHANGED <<extraction, training, slices, tensors, pc, err, out>>

\* mins, maxs, means = stats(groundtruth) (lines 454, 456)
StatsReturn ==
    /\ pc = "stats" /\ Len(d_min) = Len(groundtruth)
    /\ pc' = "stats_done"
    /\ UNCHANGED <<statistics, extraction, training, slices, tensors, err, out>>

\* the cell that prints the statistics of each video (lines 552-555)
PrintStats ==
    /\ pc = "stats_done"
    /\ out' = out \o [i \in 1..Len(d_min) |->
                        [video |-> i - 1, mins |-> d_min[i], maxs |-> d_max[i],
                         means |-> d_mean[i]]]
    /\ pc' = "stats_printed"
    /\ UNCHANGED <<statistics, extraction, training, slices, tensors, err>>

NextStats ==
    \/ StatsVideo
    \/ StatsReturn
    \/ PrintStats

SpecStats == InitStats /\ [][NextStats]_vars

-----------------------------------------------------------------------------
\* The single-keypoint notebook from the padded lists to the test cell.
\*
\* Input: corpora of N slots and L time steps in which slot s is one step
\* short, so that its last step is padding; a real target of slot n is n.

LossCorpus(N, L, s) ==
    [ds |-> [n \in 1..N |-> PaddedInput(n, IF n = s THEN L - 1 ELSE L, 1, L, 0)],
     gt |-> [n \in 1..N |-> PaddedTarget(n, IF n = s THEN L - 1 ELSE L, 0, L)]]

InitLoss ==
    /\ NotRun /\ ExtractionOver
    /\ \E N \in 1..MaxCorpus, L \in 1..MaxSteps :
          \E s \in 1..N :
              /\ dataset = LossCorpus(N, L, s).ds
              /\ groundtruth = LossCorpus(N, L, s).gt
              /\ max_seq = L
    /\ pc = "asarray"

\* TensorDataset and DataLoader (lines 409-419).  RandomSampler, which
\* DataLoader(shuffle=True) builds, raises ValueError on an empty dataset in
\* some versions of torch and accepts it in others.
BuildLoaders ==
    /\ pc = "loaders"
    /\ \/ /\ out' = Append(out, "train_loader")
          /\ pc' = "train_cell"
          /\ UNCHANGED err
       \/ /\ training_kp = <<>> \/ val_kp = <<>> \/ test_kp = <<>>
          /\ err' = "ValueError"
          /\ pc' = "loaders_raised"
          /\ UNCHANGED out
    /\ UNCHANGED <<statistics, extraction, training, tensors, slices>>

NextLoss ==
    \/ AsArray
    \/ NormalizeDataset
    \/ NormalizeGroundtruth
    \/ NanToNum
    \/ SplitKp
    \/ SplitLbl
    \/ BuildLoaders
    \/ TrainCell
    \/ EpochStart
    \/ TrainBatch
    \/ ValidationStart
    \/ ValBatch
    \/ EpochEnd
    \/ TestStart
    \/ TestBatch
    \/ TestEnd

SpecLoss == InitLoss /\ [][NextLoss]_vars

-----------------------------------------------------------------------------
\* Vocabulary of the properties.

Slots == 1..2          \* the two entries of a pair of lists: Python slot 0 and slot 1

Extracting == pc \in {"get_face", "get_hands", "get_body"}

\* the lists of the extractor that is running, and its zero-fill widths
Cur2D == IF pc = "get_face" THEN face_2D_seq
         ELSE IF pc = "get_hands" THEN hand_2D_seq ELSE body_2D_seq
Cur3D == IF pc = "get_face" THEN face_3D_seq
         ELSE IF pc = "get_hands" THEN hand_3D_seq ELSE body_3D_seq
CurWidth2D == IF pc = "get_face" THEN 2 * FaceJoints
              ELSE IF pc = "get_hands" THEN 4 * HandJoints ELSE 2 * BodyJoints
CurWidth3D == IF pc = "get_face" THEN FaceJoints
              ELSE IF pc = "get_hands" THEN 2 * HandJoints ELSE BodyJoints

\* a frame file has been read from the current slice, and which one
FrameRead == fi > 1 /\ fi - 1 <= Len(files)
LastFrame == files[fi - 1]

IsValid(person) == person.id # -1
ValidPositions(people) == {p \in 1..Len(people) : IsValid(people[p])}
ValidCount(people) == Cardinality(ValidPositions(people))
\* 0-based rank of position p among the valid entries of the document
Rank(people, p) == Cardinality({q \in ValidPositions(people) : q < p})

IsZeroVector(v, n) == Len(v) = n /\ \A k \in 1..n : v[k] = 0
Last(q) == q[Len(q)]

\* the person entries the labelled coordinates of a vector were read from
Origins(v) ==
    {<<LabelRec(v[k]), LabelMod(v[k]), LabelFile(v[k]), LabelPos(v[k])>>
        : k \in {j \in 1..Len(v) : v[j] > 0}}
\* the frame files the labelled coordinates of a vector were read from
Frames(v) == {LabelFile(v[k]) : k \in {j \in 1..Len(v) : v[j] > 0}}

CountFiles(listing) == Cardinality({k \in 1..Len(listing) : listing[k].isfile})
Monus(a, b) == IF a > b THEN a - b ELSE 0

-----------------------------------------------------------------------------
\* C1: in get_face, get_hands and get_body, a retained frame with no valid
\* detection gives BOTH slots an all-zero planar vector and an all-zero depth
\* vector of the modality's width at that time step (index = number of frames
\* read so far).
C1_ZeroDetectionFillsBothSlots ==
    (Extracting /\ FrameRead /\ ValidCount(LastFrame.people) = 0) =>
        \A s \in Slots :
            /\ Len(Cur2D[s]) = fi - 1 /\ Len(Cur3D[s]) = fi - 1
            /\ IsZeroVector(Cur2D[s][fi - 1], CurWidth2D)
            /\ IsZeroVector(Cur3D[s][fi - 1], CurWidth3D)

\* C2: when the three extractors have processed a recording, every slot's
\* planar length = depth length = number of retained frame files (regular files
\* minus the trimmed ones: face 1, hands 2, body 1).
C2_LengthsEqualRetainedFiles ==
    pc = "zip" =>
        \A s \in Slots :
            /\ Len(face_2D_seq[s]) = Monus(CountFiles(fs[rec].hdFace3d), 1)
            /\ Len(face_3D_seq[s]) = Len(face_2D_seq[s])
            /\ Len(hand_2D_seq[s]) = Monus(CountFiles(fs[rec].hdHand3d), 2)
            /\ Len(hand_3D_seq[s]) = Len(hand_2D_seq[s])
            /\ Len(body_2D_seq[s]) = Monus(CountFiles(fs[rec].hdPose3d_stage1_op25), 1)
            /\ Len(body_3D_seq[s]) = Len(body_2D_seq[s])

\* C3: while extracting and after aggregating, for each slot the planar and
\* the depth sequence have the same length and the entries at the same index
\* were read from the same frame and person entry (or are both zero fill); this
\* holds for the extractors' lists and for the aggregated corpus, also when an
\* exception ends get_keypoints.
PairAligned(q2, q3) ==
    /\ Len(q2) = Len(q3)
    /\ \A k \in 1..Len(q2) : Origins(q2[k]) = Origins(q3[k])

C3_PlanarDepthAligned ==
    pc \in {"for", "get_face", "get_hands", "get_body", "zip", "raised", "pad_dataset"} =>
        /\ \A s \in Slots :
              /\ PairAligned(face_2D_seq[s], face_3D_seq[s])
              /\ PairAligned(hand_2D_seq[s], hand_3D_seq[s])
              /\ PairAligned(body_2D_seq[s], body_3D_seq[s])
        /\ Len(dataset) = Len(groundtruth)
        /\ \A j \in 1..Len(dataset) : PairAligned(dataset[j], groundtruth[j])

\* C3 witness: a recording has been aggregated whose slot 1 holds, at the same
\* index of planar and depth, a detection's coordinates from all three
\* modalities, and whose slot 0 is longer than one frame.
C3_Witness ==
    /\ pc = "for" /\ Len(dataset) >= 2
    /\ Len(dataset[1]) >= 2
    /\ Len(dataset[2]) >= 1
    /\ Cardinality(Origins(dataset[2][1])) = 3
    /\ Origins(groundtruth[2][1]) = Origins(dataset[2][1])

\* C4: a frame with more than two valid person entries raises no error: the
\* first two go to slots 0 and 1, the rest are ignored and the extractor goes
\* on with one more entry in each slot.
C4_ExtraDetectionsIgnored ==
    (pc \in {"get_face", "get_hands", "get_body", "raised"} /\ FrameRead
        /\ ValidCount(LastFrame.people) > 2) =>
        /\ err = "none" /\ pc # "raised"
        /\ \A s \in Slots : Len(Cur2D[s]) >= 1 /\ Len(Cur3D[s]) >= 1

\* C5: in get_hands a valid person entry with neither left_hand nor right_hand
\* does not fail the frame: its slot receives zeros(84) / zeros(42) and the
\* extraction continues.
NoHands(person) == IsValid(person) /\ ~person.left /\ ~person.right

C5_BothHandsMissingZeroFilled ==
    \A p \in 1..MaxPeople :
        (pc \in {"get_hands", "raised"} /\ FrameRead /\ p <= Len(LastFrame.people)
            /\ NoHands(LastFrame.people[p]) /\ Rank(LastFrame.people, p) < 2) =>
            /\ err = "none" /\ pc = "get_hands"
            /\ IsZeroVector(Last(hand_2D_seq[Rank(LastFrame.people, p) + 1]), 4 * HandJoints)
            /\ IsZeroVector(Last(hand_3D_seq[Rank(LastFrame.people, p) + 1]), 2 * HandJoints)

\* C6: in get_hands a valid person entry missing exactly one hand, taking slot
\* 0 or 1, gets a planar vector of width 84 = zeros(42) then the right hand's
\* x1,y1,..,x21,y21 (left missing) or the left hand's x,y then zeros(42) (right
\* missing), and a depth vector of width 42 = zeros(21) / z1..z21 arranged the
\* same way; no error is raised.
\* The expected vectors are written out from the coordinates' labels: joint j
\* of hand h has x, y, z at positions 3j-2, 3j-1, 3j of that hand's landmarks.
ExpectedHandXY(r, f, p, h, k) ==       \* k-th value of x1,y1,x2,y2,...
    Label(r, 2, f, p, h, 3 * ((k + 1) \div 2 - 1) + (IF k % 2 = 1 THEN 1 ELSE 2))
ExpectedHandZ(r, f, p, h, j) == Label(r, 2, f, p, h, 3 * j)

ExpectedOneHand2D(r, f, p, person) ==
    [k \in 1..(4 * HandJoints) |->
        IF ~person.left
        THEN (IF k <= 2 * HandJoints THEN 0 ELSE ExpectedHandXY(r, f, p, 2, k - 2 * HandJoints))
        ELSE (IF k <= 2 * HandJoints THEN ExpectedHandXY(r, f, p, 1, k) ELSE 0)]
ExpectedOneHand3D(r, f, p, person) ==
    [k \in 1..(2 * HandJoints) |->
        IF ~person.left
        THEN (IF k <= HandJoints THEN 0 ELSE ExpectedHandZ(r, f, p, 2, k - HandJoints))
        ELSE (IF k <= HandJoints THEN ExpectedHandZ(r, f, p, 1, k) ELSE 0)]

OneHand(person) == IsValid(person) /\ (person.left # person.right)

C6_Case(p) ==
    /\ pc \in {"get_hands", "raised"} /\ FrameRead /\ p <= Len(LastFrame.people)
    /\ OneHand(LastFrame.people[p]) /\ Rank(LastFrame.people, p) < 2

C6_OneHandMissingZeroPadded ==
    \A p \in 1..MaxPeople :
        C6_Case(p) =>
            /\ err = "none" /\ pc = "get_hands"
            /\ Last(hand_2D_seq[Rank(LastFrame.people, p) + 1])
                  = ExpectedOneHand2D(rec, LastFrame.name, p, LastFrame.people[p])
            /\ Last(hand_3D_seq[Rank(LastFrame.people, p) + 1])
                  = ExpectedOneHand3D(rec, LastFrame.name, p, LastFrame.people[p])

\* C6 witnesses: get_hands has read a frame whose second valid entry lacks the
\* left hand, and one whose first valid entry lacks the right hand.
C6_Witness ==
    /\ pc = "get_hands" /\ FrameRead /\ Len(LastFrame.people) = 2
    /\ C6_Case(2) /\ ~LastFrame.people[2].left
    /\ Len(hand_2D_seq[2]) >= 1

\* C7: for every recording whose three modality folders contain the same frame
\* files, the face, hands and body sequences of each slot have equal length and
\* index k of each was read from the same frame file.
SameFrameFiles(r) ==
    /\ {e.name : e \in {r.hdFace3d[k] : k \in 1..Len(r.hdFace3d)}}
         = {e.name : e \in {r.hdHand3d[k] : k \in 1..Len(r.hdHand3d)}}
    /\ {e.name : e \in {r.hdFace3d[k] : k \in 1..Len(r.hdFace3d)}}
         = {e.name : e \in {r.hdPose3d_stage1_op25[k] : k \in 1..Len(r.hdPose3d_stage1_op25)}}

ModalitiesAligned(fa, ha, po) ==
    /\ Len(fa) = Len(ha) /\ Len(ha) = Len(po)
    /\ \A k \in 1..Len(fa) :
          Cardinality(Frames(fa[k]) \cup Frames(ha[k]) \cup Frames(po[k])) <= 1

C7_ModalitiesFrameAligned ==
    (pc = "zip" /\ SameFrameFiles(fs[rec])) =>
        \A s \in Slots :
            /\ ModalitiesAligned(face_2D_seq[s], hand_2D_seq[s], body_2D_seq[s])
            /\ ModalitiesAligned(face_3D_seq[s], hand_3D_seq[s], body_3D_seq[s])

\* C8: when the face, hands and body sequences of a slot differ in length, the
\* aggregator does not return a concatenated sequence without signalling it:
\* it raises, or it prints a warning besides the progress lines.
ProgressLines == {"Face completed.", "Hands completed.", "Body completed.", "Completed folder"}

LengthsDisagree ==
    \E s \in Slots :
        \/ Len(face_2D_seq[s]) # Len(hand_2D_seq[s])
        \/ Len(hand_2D_seq[s]) # Len(body_2D_seq[s])

C8_LengthMismatchSignalled ==
    (pc = "for" /\ rec >= 1 /\ Len(dataset) = 2 * rec /\ LengthsDisagree) =>
        \E k \in 1..Len(out) : out[k] \notin ProgressLines

\* C9: get_keypoints over R recording folders returns 2R inputs and 2R
\* targets; entries 2j-1 and 2j (Python 2j, 2j+1) are slot 0 and slot 1 of the
\* j-th folder in listing order, for inputs and targets alike: every labelled
\* coordinate in them was read from recording j, from a person entry that was
\* the (slot+1)-th valid entry of its frame.
ListingOf(r, m) == IF m = 1 THEN r.hdFace3d ELSE IF m = 2 THEN r.hdHand3d ELSE r.hdPose3d_stage1_op25

FileNamed(listing, f) == (CHOOSE k \in 1..Len(listing) : listing[k].name = f)

BelongsTo(v, j, s) ==
    \A o \in Origins(v) :
        /\ o[1] = j
        /\ LET listing == ListingOf(fs[j], o[2])
           IN  Rank(listing[FileNamed(listing, o[3])].people, o[4]) = s - 1

C9_CorpusLayout ==
    pc = "pad_dataset" =>
        /\ Len(dataset) = 2 * Len(fs) /\ Len(groundtruth) = 2 * Len(fs)
        /\ \A j \in 1..Len(fs) : \A s \in Slots :
              /\ \A k \in 1..Len(dataset[2 * (j - 1) + s]) :
                    BelongsTo(dataset[2 * (j - 1) + s][k], j, s)
              /\ \A k \in 1..Len(groundtruth[2 * (j - 1) + s]) :
                    BelongsTo(groundtruth[2 * (j - 1) + s][k], j, s)

\* C9 witness: get_keypoints has returned the corpus of two recordings, all
\* four entries holding detections.
C9_Witness ==
    /\ pc = "pad_dataset" /\ Len(fs) = 2 /\ Len(dataset) = 4
    /\ \A n \in 1..4 : Len(dataset[n]) >= 1 /\ Origins(dataset[n][1]) # {}

\* C10: padding_seq on a non-empty collection returns L = the longest original
\* length and leaves every sequence equal to its original content followed by
\* exactly L - (original length) vectors that are NaN in every position and as
\* wide as the sequence's elements.
PaddedFrom(before, after, L) ==
    /\ L = MaxLen(before)
    /\ Len(after) = Len(before)
    /\ \A n \in 1..Len(before) :
          /\ Len(after[n]) = L
          /\ SubSeq(after[n], 1, Len(before[n])) = before[n]
          /\ \A k \in (Len(before[n]) + 1)..L :
                /\ \A c \in 1..Len(after[n][k]) : after[n][k][c] = NaN
                /\ Len(before[n]) >= 1 => Len(after[n][k]) = Len(before[n][1])

C10_PaddingAppendsMissingVectors ==
    [][ /\ (pc = "pad_dataset" /\ dataset # <<>>) =>
              (pc' = "pad_groundtruth" /\ PaddedFrom(dataset, dataset', max_seq'))
        /\ (pc = "pad_groundtruth" /\ groundtruth # <<>>) =>
              (pc' = "done" /\ PaddedFrom(groundtruth, groundtruth', max_seq)) ]_vars

\* C11: after padding_seq has been applied to the inputs and then to the
\* targets returned by get_keypoints, both calls have used the same L (the
\* longest length of either collection is the returned max_seq), inputs[k] and
\* targets[k] have the same length L for every k, and a time step is padding
\* (a NaN vector) in inputs[k] exactly when it is padding in targets[k].
IsNaNVector(v) == v # <<>> /\ \A c \in 1..Len(v) : v[c] = NaN

C11_SamePaddingInputsTargets ==
    pc = "done" =>
        /\ MaxLen(dataset) = max_seq /\ MaxLen(groundtruth) = max_seq
        /\ Len(dataset) = Len(groundtruth)
        /\ \A n \in 1..Len(dataset) :
              /\ Len(dataset[n]) = max_seq /\ Len(groundtruth[n]) = max_seq
              /\ \A t \in 1..max_seq :
                    IsNaNVector(dataset[n][t]) <=> IsNaNVector(groundtruth[n][t])

\* C11 witness: both collections have been padded, one sequence needed no
\* padding and another one ends with padding.
C11_Witness ==
    /\ pc = "done" /\ max_seq >= 2
    /\ \E n \in 1..Len(dataset) : ~IsNaNVector(dataset[n][max_seq])
    /\ \E n \in 1..Len(dataset) :
          /\ ~IsNaNVector(dataset[n][1])
          /\ IsNaNVector(dataset[n][max_seq]) /\ IsNaNVector(groundtruth[n][max_seq])

-----------------------------------------------------------------------------
\* C12: normalize takes each sub-channel's mean and standard deviation over
\* the entries that are not NaN only: the count behind the returned mean is the
\* number of non-NaN entries of the sub-channel, and for a tensor one of whose
\* slots is NaN throughout, the returned (mean, std) pairs are those of the
\* tensor with that slot removed.
AllMissing(tensor, n) ==
    /\ tensor[n] # <<>>
    /\ \A t \in 1..Len(tensor[n]) : \A c \in 1..Len(tensor[n][t]) : IsNaN(tensor[n][t][c])

Remove(tensor, n) == SubSeq(tensor, 1, n - 1) \o SubSeq(tensor, n + 1, Len(tensor))

PresentCount(tensor, j, coordinates) ==
    Cardinality({x \in Positions(tensor) :
                    (x[3] - 1) % coordinates = j /\ tensor[x[1]][x[2]][x[3]] # NaNf})

SkipsMissing(tensor, coordinates, ret) ==
    /\ \A j \in 1..coordinates :
          /\ ret[j][1].den = PresentCount(tensor, j - 1, coordinates)
          /\ ret[j][2].den = PresentCount(tensor, j - 1, coordinates)
    /\ \A n \in 1..Len(tensor) :
          AllMissing(tensor, n) => ret = normalize(Remove(tensor, n), coordinates).ret

C12_NormalizeSkipsMissing ==
    [][ /\ (pc = "normalize_kp" /\ pc' = "normalize_lbl") =>
              SkipsMissing(dataset, 2, mean_std_kp')
        /\ (pc = "normalize_lbl" /\ pc' = "nan_to_num") =>
              SkipsMissing(groundtruth, 1, mean_std_lbl') ]_vars

\* C12 witness: both tensors have been normalized, each has a slot that is NaN
\* throughout and a slot with values, and the statistics were taken over some
\* entries.
C12_Witness ==
    /\ pc = "nan_to_num"
    /\ \E n \in 1..Len(dataset) : AllMissing(dataset, n) /\ AllMissing(groundtruth, n)
    /\ \E n \in 1..Len(dataset) : ~AllMissing(dataset, n) /\ ~AllMissing(groundtruth, n)
    /\ mean_std_kp[1][1].den > 0 /\ mean_std_kp[2][1].den > 0
    /\ mean_std_lbl[1][1].den > 0

\* C13: when every value of a sub-channel is NaN, normalize does not raise and
\* returns a (NaN, NaN) pair for that sub-channel, and no later cell up to the
\* split raises.
IsNaNPair(pair) == pair[1].den = 0 /\ pair[2].den = 0

AllNaN(tensor, j, coordinates) ==
    /\ SubChannel(tensor, j, coordinates) # {}
    /\ \A x \in SubChannel(tensor, j, coordinates) : IsNaN(tensor[x[1]][x[2]][x[3]])

Degenerate(ret) == \E j \in 1..Len(ret) : IsNaNPair(ret[j])

C13_AllMissingChannelIsNaNPair ==
    [][ /\ (pc = "normalize_kp" /\ \E j \in 0..1 : AllNaN(dataset, j, 2)) =>
              /\ pc' = "normalize_lbl" /\ err' = "none"
              /\ \A j \in 0..1 : AllNaN(dataset, j, 2) => IsNaNPair(mean_std_kp'[j + 1])
        /\ (pc = "normalize_lbl" /\ AllNaN(groundtruth, 0, 1)) =>
              /\ pc' = "nan_to_num" /\ err' = "none"
              /\ IsNaNPair(mean_std_lbl'[1])
        /\ (Degenerate(mean_std_kp) \/ Degenerate(mean_std_lbl)) =>
              /\ err' = "none"
              /\ pc' \in {"normalize_lbl", "nan_to_num", "split_kp", "split_lbl", "loaders"} ]_vars

\* C13 witness: the split cell has returned for a corpus whose depth channel
\* was NaN throughout.
C13_Witness ==
    /\ pc = "loaders" /\ err = "none"
    /\ IsNaNPair(mean_std_lbl[1])
    /\ Len(training_lbl) >= 1 /\ Len(training_lbl[1]) >= 1

\* C14: for every number N >= 0 of slots, training, validation and test are
\* three consecutive slices of the tensor, in slot order, that together hold
\* every slot exactly once: training = [0, a), validation = [a, b),
\* test = [b, N) with 0 <= a <= b <= N.
IsPartition(tensor, tr, va, te) ==
    /\ tr \o va \o te = tensor
    /\ LET a == Len(tr)
           b == Len(tr) + Len(va)
       IN  /\ 0 <= a /\ a <= b /\ b <= Len(tensor)
           /\ tr = SubSeq(tensor, 1, a)
           /\ va = SubSeq(tensor, a + 1, b)
           /\ te = SubSeq(tensor, b + 1, Len(tensor))

C14_SplitIsPartition ==
    /\ pc \in {"split_lbl", "loaders"} => IsPartition(dataset, training_kp, val_kp, test_kp)
    /\ pc = "loaders" => IsPartition(groundtruth, training_lbl, val_lbl, test_lbl)

\* C14 witness: a tensor has been split into three non-empty slices.
C14_Witness ==
    /\ pc = "loaders"
    /\ training_kp # <<>> /\ val_kp # <<>> /\ test_kp # <<>>
    /\ training_lbl # <<>> /\ val_lbl # <<>> /\ test_lbl # <<>>

\* C15: for every N the validation boundary a is an integer nearest to 0.67*N
\* and the test boundary b an integer nearest to 0.85*N (no integer is nearer:
\* |100a - 67N| <= 50, |100b - 85N| <= 50), also where the product ends in .5;
\* for N = 20 the boundaries are 13, 17 and 20.
Nearest(m, percent, l) ==
    /\ 100 * m - percent * l <= 50
    /\ percent * l - 100 * m <= 50

Boundaries(tensor, tr, va, te) ==
    /\ Nearest(Len(tr), 67, Len(tensor))
    /\ Nearest(Len(tr) + Len(va), 85, Len(tensor))
    /\ Len(tensor) = 20 =>
          /\ Len(tr) = 13 /\ Len(tr) + Len(va) = 17
          /\ Len(tr) + Len(va) + Len(te) = 20

C15_BoundariesRounded ==
    /\ pc \in {"split_lbl", "loaders"} => Boundaries(dataset, training_kp, val_kp, test_kp)
    /\ pc = "loaders" => Boundaries(groundtruth, training_lbl, val_lbl, test_lbl)

\* C15 witness: a tensor of 20 slots has been split at 13 and 17.
C15_Witness ==
    /\ pc = "loaders" /\ Len(dataset) = 20
    /\ Len(training_kp) = 13 /\ Len(val_kp) = 4 /\ Len(test_kp) = 3
    /\ Len(training_lbl) = 13 /\ Len(val_lbl) = 4 /\ Len(test_lbl) = 3

-----------------------------------------------------------------------------
\* C16: in the single-keypoint pipeline, after padding, every time step that
\* carries no data -- a step beyond the sequence's original length, or a frame
\* in which no person was detected -- holds NaN in the input sequence (both
\* coordinates) and in the target sequence.
RetainedKp(j) == DropLast(RegularFiles(fs[3 + j].hdPose3d_stage1_op25))

NoDataKp(j, t) ==
    \/ t > Len(RetainedKp(j))
    \/ ValidCount(RetainedKp(j)[t].people) = 0

C16_NoDataStepsAreMissing ==
    pc = "done" =>
        \A j \in 1..Len(dataset) : \A t \in 1..Len(dataset[j]) :
            NoDataKp(j, t) =>
                /\ dataset[j][t] = <<NaN, NaN>>
                /\ groundtruth[j][t] = NaN

-----------------------------------------------------------------------------
\* C17: a slot tracks one individual across the frames of a recording: in the
\* lists an extractor builds, no person id has data in slot 0 in one frame and
\* in slot 1 in another.
\* the id of the person entry a coordinate was read from
IdOf(o) ==
    LET listing == ListingOf(fs[o[1]], o[2])
    IN  listing[FileNamed(listing, o[3])].people[o[4]].id

IdsIn(q) == {IdOf(o) : o \in UNION {Origins(q[k]) : k \in 1..Len(q)}}

C17_SlotTracksOneIndividual ==
    \A pair \in {face_2D_seq, face_3D_seq, hand_2D_seq, hand_3D_seq, body_2D_seq, body_3D_seq} :
        IdsIn(pair[1]) \cap IdsIn(pair[2]) = {}

-----------------------------------------------------------------------------
\* C18: in the training loop the recurrent state is zero only for the first
\* minibatch of an epoch; every later minibatch of the epoch is given the
\* state the model returned for the minibatch before it, with the same values
\* and detached from the graph.
EarlierInEpoch(k) ==
    {j \in 1..(k - 1) : calls[j].phase = "train" /\ calls[j].epoch = calls[k].epoch}

Latest(S) == CHOOSE j \in S : \A n \in S : n <= j

C18_StateCarriedWithinEpoch ==
    \A k \in 1..Len(calls) :
        calls[k].phase = "train" =>
            /\ calls[k].given.graph = FALSE
            /\ IF EarlierInEpoch(k) = {}
               THEN calls[k].given.val = <<>>
               ELSE /\ calls[k].given.val = calls[Latest(EarlierInEpoch(k))].returned.val
                    /\ calls[k].given.val # <<>>

\* C18 witness: the third training minibatch of an epoch has run on the state
\* returned for the second, which ran on the state returned for the first.
C18_Witness ==
    /\ pc = "train_loop" /\ Len(calls) = 3
    /\ calls[1].given.val = <<>>
    /\ calls[2].given.val = calls[1].returned.val
    /\ calls[3].given.val = calls[2].returned.val
    /\ hidden = calls[3].returned

\* C19: the training cell ends only after NUM_EPOCHS epochs, each of which ran
\* its training minibatches, then the validation pass, then printed its report
\* (training loss, validation loss, MPJPE times the depth standard deviation);
\* no exception ends it before.
TrainingCellOver == pc \in {"train_raised", "trained", "test_loop", "tested"}

Reports == {k \in 1..Len(out) : out[k].line = "Finished epoch"}

C19_EveryEpochReported ==
    TrainingCellOver =>
        /\ err = "none"
        /\ epoch = NUM_EPOCHS
        /\ Cardinality(Reports) = NUM_EPOCHS
        /\ \A k \in Reports : out[k].mpjpe_times = mean_std_lbl[1][2]

\* C20: the validation pass and the test pass leave the model parameters and
\* the optimizer state unchanged; they change only in a step of the
\* training-minibatch loop.
C20_UpdatesOnlyInTraining ==
    [][ /\ (pc \in {"val_loop", "train_raised", "trained", "test_loop"}) =>
              (params' = params /\ opt_state' = opt_state)
        /\ (params' # params \/ opt_state' # opt_state) =>
              (pc = "train_loop" /\ pc' = "train_loop" /\ loader' # loader) ]_vars

\* C20 witness: after training minibatches that updated the parameters, a
\* validation minibatch and a test minibatch have run on those parameters.
C20_Witness ==
    /\ pc = "tested" /\ params >= 2
    /\ \E k \in 1..Len(calls) : calls[k].phase = "val" /\ calls[k].params = params
    /\ \E k \in 1..Len(calls) : calls[k].phase = "test" /\ calls[k].params = params
    /\ opt_state = params

-----------------------------------------------------------------------------
\* C21: a frame file that an extractor opens -- one it retains after trimming
\* -- and that is unreadable or holds malformed JSON ends the run: the
\* exception leaves the extractor and get_keypoints, nothing is appended for
\* the frame (no zero substitution, no skipping to the next frame), the corpus
\* is not returned, and get_keypoints returns only when no retained frame file
\* of any recording is corrupt.
Retained(r, m) ==
    IF m = 1 THEN DropFirst(RegularFiles(r.hdFace3d))
    ELSE IF m = 2 THEN DropFirstAndLast(RegularFiles(r.hdHand3d))
    ELSE DropLast(RegularFiles(r.hdPose3d_stage1_op25))

Unreadable(file) == file.isfile /\ file.raises # "none"

Returned == pc \in {"pad_dataset", "pad_groundtruth", "done", "pad_raised"}

lists == <<face_2D_seq, face_3D_seq, hand_2D_seq, hand_3D_seq, body_2D_seq, body_3D_seq>>

C21_CorruptRetainedFrameAborts ==
    [][ /\ (Extracting /\ fi <= Len(files) /\ Unreadable(files[fi])) =>
              /\ pc' = "raised" /\ err' = files[fi].raises
              /\ UNCHANGED <<lists, dataset, groundtruth, out>>
        /\ pc = "raised" => pc' = "raised"
        /\ Returned' =>
              \A j \in 1..Len(fs) : \A m \in 1..3 : \A k \in 1..Len(Retained(fs[j], m)) :
                  ~Unreadable(Retained(fs[j], m)[k]) ]_vars

\* C21 as stated, for any frame file listed in a modality folder: get_keypoints
\* returns only when no frame file of any recording is corrupt.
C21_AnyCorruptFileAborts ==
    Returned =>
        \A j \in 1..Len(fs) : \A m \in 1..3 : \A k \in 1..Len(ListingOf(fs[j], m)) :
            ~Unreadable(ListingOf(fs[j], m)[k])

\* C21 witness: in the second recording, after a frame that was read, a corrupt
\* frame has ended the run with its exception; the first recording's two
\* sequences are in the corpus that is never returned.
C21_Witness ==
    /\ pc = "raised" /\ err \in IOErrors
    /\ rec = 2 /\ Len(dataset) = 2
    /\ FrameRead /\ fi - 1 >= 2
    /\ Unreadable(LastFrame) /\ err = LastFrame.raises

-----------------------------------------------------------------------------
\* C22: for a root with 2 recordings, each with 3 retained frames and exactly
\* 2 valid body-only detections per frame (no face, no hands data), the run
\* raises nothing and ends with a corpus of 4 slots, L = 3, every time step a
\* planar vector of width 52 and a depth vector of width 26, and no padding
\* element added.
C22_BodyOnlyScenarioCorpus ==
    fs \in BodyOnlyFileSystems =>
        /\ pc \notin {"raised", "pad_raised"}
        /\ pc = "done" =>
              /\ Len(dataset) = 4 /\ Len(groundtruth) = 4
              /\ max_seq = 3
              /\ \A n \in 1..4 :
                    /\ Len(dataset[n]) = 3 /\ Len(groundtruth[n]) = 3
                    /\ \A t \in 1..3 :
                          /\ Len(dataset[n][t]) = 2 * BodyJoints
                          /\ Len(groundtruth[n][t]) = BodyJoints
                          /\ ~IsNaNVector(dataset[n][t]) /\ ~IsNaNVector(groundtruth[n][t])

-----------------------------------------------------------------------------
\* C23: in get_face, get_hands and get_body, reading a retained frame with
\* exactly one valid detection raises nothing and appends one vector to each
\* slot, planar and depth: to slot 0 a vector of the modality's width read from
\* that detection, to slot 1 the all-zero vector of the modality's width.
CurMod == IF pc = "get_face" THEN 1 ELSE IF pc = "get_hands" THEN 2 ELSE 3

OneDetection(file) == ~Unreadable(file) /\ ValidCount(file.people) = 1

TheOne(file) == CHOOSE p \in ValidPositions(file.people) : TRUE

\* pair new is pair old with one vector of width w more in each slot: in slot 0
\* a vector read from the person entry o only, in slot 1 zeros
DetectionAndZeros(old, new, w, o) ==
    /\ new[1] = Append(old[1], Last(new[1]))
    /\ Len(Last(new[1])) = w /\ Origins(Last(new[1])) \subseteq {o}
    /\ new[2] = Append(old[2], Zeros(w))

C23_OneDetectionZeroFillsSlotOne ==
    [][ (Extracting /\ fi <= Len(files) /\ OneDetection(files[fi])) =>
            /\ pc' = pc /\ err' = "none"
            /\ DetectionAndZeros(Cur2D, Cur2D', CurWidth2D,
                                 <<rec, CurMod, files[fi].name, TheOne(files[fi])>>)
            /\ DetectionAndZeros(Cur3D, Cur3D', CurWidth3D,
                                 <<rec, CurMod, files[fi].name, TheOne(files[fi])>>) ]_vars

-----------------------------------------------------------------------------
\* C24: for every valid person entry that takes a slot, the planar vector the
\* extractor appends is x1,y1,x2,y2,... in joint order and the depth vector is
\* z1,z2,... in the same joint order; face reads triples x,y,z, body reads
\* quadruples x,y,z,confidence and drops the confidence, and hands puts the left
\* hand's values before the right hand's.
\* The expected vectors are written out from the coordinates' labels: joint j
\* has x, y, z at positions stride*(j-1) + 1, + 2, + 3 of the landmark list,
\* with stride 3 for face and hands and 4 for body.
Stride(m) == IF m = 3 THEN 4 ELSE 3

ExpectedX(r, m, f, p, h, j) == Label(r, m, f, p, h, Stride(m) * (j - 1) + 1)
ExpectedY(r, m, f, p, h, j) == Label(r, m, f, p, h, Stride(m) * (j - 1) + 2)
ExpectedZ(r, m, f, p, h, j) == Label(r, m, f, p, h, Stride(m) * (j - 1) + 3)

\* x1,y1,..,xn,yn and z1,..,zn of one landmark list of n joints
ExpectedPlanar(r, m, f, p, h, n) ==
    [k \in 1..(2 * n) |-> IF k % 2 = 1 THEN ExpectedX(r, m, f, p, h, (k + 1) \div 2)
                          ELSE ExpectedY(r, m, f, p, h, k \div 2)]
ExpectedDepth(r, m, f, p, h, n) == [j \in 1..n |-> ExpectedZ(r, m, f, p, h, j)]

Expected2D(r, m, f, p) ==
    IF m = 1 THEN ExpectedPlanar(r, 1, f, p, 0, FaceJoints)
    ELSE IF m = 3 THEN ExpectedPlanar(r, 3, f, p, 0, BodyJoints)
    ELSE ExpectedPlanar(r, 2, f, p, 1, HandJoints) \o ExpectedPlanar(r, 2, f, p, 2, HandJoints)
Expected3D(r, m, f, p) ==
    IF m = 1 THEN ExpectedDepth(r, 1, f, p, 0, FaceJoints)
    ELSE IF m = 3 THEN ExpectedDepth(r, 3, f, p, 0, BodyJoints)
    ELSE ExpectedDepth(r, 2, f, p, 1, HandJoints) \o ExpectedDepth(r, 2, f, p, 2, HandJoints)

\* the extractor has read a frame whose entry p is valid, complete and takes a slot
C24_Case(p) ==
    /\ Extracting /\ FrameRead /\ ~Unreadable(LastFrame)
    /\ p <= Len(LastFrame.people) /\ IsValid(LastFrame.people[p])
    /\ Rank(LastFrame.people, p) < 2
    /\ pc = "get_hands" => (LastFrame.people[p].left /\ LastFrame.people[p].right)

C24_InterleavedJointOrder ==
    \A p \in 1..MaxPeople :
        C24_Case(p) =>
            /\ Last(Cur2D[Rank(LastFrame.people, p) + 1]) = Expected2D(rec, CurMod, LastFrame.name, p)
            /\ Last(Cur3D[Rank(LastFrame.people, p) + 1]) = Expected3D(rec, CurMod, LastFrame.name, p)

\* C24 witness: get_body has read a frame with two detections, after get_face
\* and get_hands did so in the same recording; the second body entry's
\* x1,y1,..,x26,y26 and z1..z26 are the last vectors of slot 1.
C24_Witness ==
    /\ pc = "get_body" /\ FrameRead /\ ValidCount(LastFrame.people) = 2
    /\ C24_Case(2)
    /\ Last(body_2D_seq[2]) = Expected2D(rec, 3, LastFrame.name, 2)
    /\ Len(Last(body_2D_seq[2])) = 2 * BodyJoints
    /\ Last(body_2D_seq[2])[3] = Label(rec, 3, LastFrame.name, 2, 0, 5)
    /\ Len(face_2D_seq[2]) >= 1 /\ Origins(Last(face_2D_seq[2])) # {}
    /\ Len(hand_2D_seq[2]) >= 1 /\ Origins(Last(hand_2D_seq[2])) # {}

-----------------------------------------------------------------------------
\* C25: stats leaves the missing-value markers out of every aggregate it
\* returns: for each video and each keypoint group (face, hands, body) the
\* minimum, the maximum and the mean of the pairwise absolute depth differences
\* are those of the video without its all-missing (padding) frames.
WithoutMissing(vid) == SelectSeq(vid, LAMBDA frame : ~IsNaNVector(frame))

C25_StatsExcludeMissing ==
    \A v \in 1..Len(d_min) :
        LET s == StatsOfVideo(WithoutMissing(groundtruth[v]))
        IN  d_min[v] = s.min /\ d_max[v] = s.max /\ d_mean[v] = s.mean

\* C25 witness: the statistics have been printed of a video that ends with a
\* padding frame after a detection frame; its minimum, maximum and mean are
\* numbers, and differ from those of the other video.
C25_Witness ==
    /\ pc = "stats_printed" /\ Len(d_min) = 2
    /\ IsNaNVector(Last(groundtruth[2])) /\ ~IsNaNVector(groundtruth[2][1])
    /\ \A g \in 1..3 :
          /\ d_min[2][g] > 0 /\ d_min[2][g] < inf
          /\ d_max[2][g] > d_min[2][g]
          /\ d_mean[2][g].den > 0 /\ d_mean[2][g].num > 0
    /\ d_mean[2] # d_mean[1]

-----------------------------------------------------------------------------
\* The frames an extractor has read so far, and those among them with at
\* least one valid detection.
FramesRead == 1..(fi - 1)

Detected == {k \in FramesRead : ValidCount(files[k].people) >= 1}

AtMostTwoEach ==
    \A k \in FramesRead : ~Unreadable(files[k]) /\ ValidCount(files[k].people) <= 2

\* C26: while get_face, get_hands or get_body runs without an exception and
\* no frame read so far has more than two valid detections, slot 0 (planar and
\* depth) holds one entry per frame read and slot 1 one entry per frame read
\* that had at least one valid detection; so slot 1 is never longer than
\* slot 0.
C26_SlotLengthsCountFrames ==
    (Extracting /\ AtMostTwoEach) =>
        /\ Len(Cur2D[1]) = fi - 1 /\ Len(Cur3D[1]) = fi - 1
        /\ Len(Cur2D[2]) = Cardinality(Detected)
        /\ Len(Cur3D[2]) = Cardinality(Detected)
        /\ Len(Cur2D[2]) <= Len(Cur2D[1])

\* an extractor has read a frame without a detection and a frame with one, so
\* its two slots differ in length
C26_Witness ==
    /\ Extracting /\ AtMostTwoEach
    /\ Detected # {} /\ Detected # FramesRead
    /\ Len(Cur2D[2]) < Len(Cur2D[1])
    /\ C26_SlotLengthsCountFrames

-----------------------------------------------------------------------------
\* The first empty sequence of a collection that has one.
HasEmpty(ds) == \E n \in 1..Len(ds) : ds[n] = <<>>

FirstEmpty(ds) == CHOOSE e \in 1..Len(ds) : ds[e] = <<>> /\ \A n \in 1..(e - 1) : ds[n] # <<>>

\* seq after padding_seq has extended it to L steps: its own steps, then
\* missing-value vectors of the width of its first step
PaddedTo(before, after, L) ==
    /\ Len(after) = L
    /\ SubSeq(after, 1, Len(before)) = before
    /\ \A t \in (Len(before) + 1)..L :
          Len(after[t]) = Len(before[1]) /\ IsNaNVector(after[t])

\* what a call of padding_seq on a collection with an empty and a non-empty
\* sequence leaves behind
RaisedAtFirstEmpty(before, after) ==
    LET e == FirstEmpty(before)
    IN  /\ Len(after) = Len(before)
        /\ \A n \in 1..(e - 1) : PaddedTo(before[n], after[n], MaxLen(before))
        /\ \A n \in e..Len(before) : after[n] = before[n]

\* C27: padding_seq called on a collection that holds an empty sequence and a
\* non-empty one (L > 0) raises IndexError instead of returning; the
\* sequences before the first empty one have been padded to L in place, the
\* empty one and those after it are as they were.
C27_EmptySequenceRaises ==
    [][ /\ (pc = "pad_dataset" /\ HasEmpty(dataset) /\ MaxLen(dataset) > 0) =>
              /\ pc' = "pad_raised" /\ err' = "IndexError"
              /\ RaisedAtFirstEmpty(dataset, dataset')
              /\ groundtruth' = groundtruth
        /\ (pc = "pad_groundtruth" /\ HasEmpty(groundtruth) /\ MaxLen(groundtruth) > 0) =>
              /\ pc' = "pad_raised" /\ err' = "IndexError"
              /\ RaisedAtFirstEmpty(groundtruth, groundtruth') ]_vars

\* padding has raised on an empty sequence after it had extended an earlier,
\* shorter sequence with missing-value vectors
C27_Witness ==
    /\ pc = "pad_raised" /\ err = "IndexError"
    /\ HasEmpty(dataset)
    /\ \E n \in 1..(FirstEmpty(dataset) - 1) :
          /\ Len(dataset[n]) = MaxLen(dataset)
          /\ IsNaNVector(Last(dataset[n]))
          /\ ~IsNaNVector(dataset[n][1])

-----------------------------------------------------------------------------
\* No entry of a tensor is the missing-value marker.
NoNaN(tensor) == \A x \in Positions(tensor) : ~IsNaN(tensor[x[1]][x[2]][x[3]])

\* after is before with every missing-value marker replaced by 0
MarkersZeroed(before, after) ==
    /\ Len(after) = Len(before)
    /\ \A n \in 1..Len(before) :
          /\ Len(after[n]) = Len(before[n])
          /\ \A t \in 1..Len(before[n]) :
                /\ Len(after[n][t]) = Len(before[n][t])
                /\ \A c \in 1..Len(before[n][t]) :
                      IF IsNaN(before[n][t][c]) THEN after[n][t][c] = Float(0)
                      ELSE after[n][t][c] = before[n][t][c]

\* the conversion cell has run
Converted ==
    pc \notin {"asarray", "normalize_kp", "normalize_lbl", "nan_to_num", "norm_raised"}

\* every time step and coordinate of a minibatch's targets
AllElements(labels) == {x \in (1..Len(labels)) \X {1} : Len(labels[x[1]]) = 1}

\* C28: the nan_to_num cell replaces every missing-value marker of the inputs
\* and of the targets by 0 and changes nothing else, so a padded target step
\* and a real target equal to the channel mean (normalized to 0) are both 0;
\* from then on no marker is left in the two tensors nor in the six partitions
\* cut from them; and the MSE loss and the MPJPE entry of every minibatch, in
\* the training, validation and test loops, are means over all the time steps
\* of the minibatch's targets, the zeroed ones included.
C28_ZeroedPaddingCountsInLoss ==
    [][ /\ pc = "nan_to_num" =>
              /\ MarkersZeroed(dataset, dataset')
              /\ MarkersZeroed(groundtruth, groundtruth')
              /\ \A n \in 1..Len(groundtruth) : \A t \in 1..Len(groundtruth[n]) :
                    (IsNaN(groundtruth[n][t][1]) \/ IsZero(groundtruth[n][t][1]))
                        <=> IsZero(groundtruth'[n][t][1])
        /\ Converted' =>
              /\ NoNaN(dataset') /\ NoNaN(groundtruth')
              /\ NoNaN(training_kp') /\ NoNaN(val_kp') /\ NoNaN(test_kp')
              /\ NoNaN(training_lbl') /\ NoNaN(val_lbl') /\ NoNaN(test_lbl')
        /\ \A k \in 1..Len(calls') :
              LET labels == (LabelsOf(calls[k].inputs))'
              IN  /\ calls'[k].loss = AllElements(labels)
                  /\ calls'[k].mpjpe = AllElements(labels)
                  /\ Cardinality(calls'[k].loss) = max_seq' ]_vars

\* the targets of the model's corpus of N slots and L steps with short slot s,
\* normalized, and then converted
NormalizedTargets(N, L, s) == normalize(expand_dims(LossCorpus(N, L, s).gt), 1).tensor

\* a training minibatch has taken its loss and its MPJPE entry over a padded
\* step, now 0, of a slot whose real step equals the channel mean, also 0
C28_Witness ==
    /\ pc = "train_loop"
    /\ \E N \in 1..MaxCorpus, L \in 2..MaxSteps : \E s \in 1..N :
          /\ groundtruth = nan_to_num(NormalizedTargets(N, L, s))
          /\ mean_std_lbl = normalize(expand_dims(LossCorpus(N, L, s).gt), 1).ret
          /\ IsNaN(NormalizedTargets(N, L, s)[s][L][1])
          /\ IsZero(NormalizedTargets(N, L, s)[s][1][1])
          /\ groundtruth[s][L][1] = Float(0) /\ IsZero(groundtruth[s][1][1])
          /\ s <= Len(training_lbl)
          /\ \E k \in 1..Len(calls) :
                /\ calls[k].inputs = <<"training", s>>
                /\ <<L, 1>> \in calls[k].loss /\ <<1, 1>> \in calls[k].loss
                /\ <<L, 1>> \in calls[k].mpjpe

-----------------------------------------------------------------------------
\* The three partitions of the inputs and of the targets, in order.
KpPartitions == <<training_kp, val_kp, test_kp>>
LblPartitions == <<training_lbl, val_lbl, test_lbl>>

\* input k and target k are entry p of partition P
SamePlace(k, P, p) ==
    /\ 1 <= p /\ p <= Len(KpPartitions[P]) /\ p <= Len(LblPartitions[P])
    /\ KpPartitions[P][p] = dataset[k]
    /\ LblPartitions[P][p] = groundtruth[k]

\* C29: once both tensors are split, the partitions of the inputs and of the
\* targets have the same lengths, and for every slot index k input k and
\* target k are in the same partition at the same position, which is k less
\* the slots of the partitions before it.
C29_SameBoundaries ==
    pc = "loaders" =>
        /\ \A P \in 1..3 : Len(KpPartitions[P]) = Len(LblPartitions[P])
        /\ \A k \in 1..Len(dataset) :
              LET a == Len(training_kp)
                  b == Len(training_kp) + Len(val_kp)
              IN  IF k <= a THEN SamePlace(k, 1, k)
                  ELSE IF k <= b THEN SamePlace(k, 2, k - a)
                  ELSE SamePlace(k, 3, k - b)

\* both tensors have been split, and each partition holds an input with its
\* target
C29_Witness ==
    /\ pc = "loaders"
    /\ \E k1, k2, k3 \in 1..Len(dataset) :
          /\ k1 < k2 /\ k2 < k3
          /\ SamePlace(k1, 1, k1)
          /\ SamePlace(k2, 2, k2 - Len(training_lbl))
          /\ SamePlace(k3, 3, k3 - Len(training_lbl) - Len(val_lbl))
          /\ dataset[k1] # dataset[k2] /\ groundtruth[k2] # groundtruth[k3]

-----------------------------------------------------------------------------
\* The corpus get_keypoints builds from R recordings, each slot named by its
\* recording and its slot in the recording, both counted from 0.
RECURSIVE LayoutOf(_)
LayoutOf(R) ==
    IF R = 0 THEN <<>>
    ELSE CorpusAppend(LayoutOf(R - 1), <<R - 1, 0>>, <<R - 1, 1>>)

\* the partition (1, 2 or 3) that holds slot k of the tensor
PartitionOf(k) ==
    IF k <= Len(training_kp) THEN 1
    ELSE IF k <= Len(training_kp) + Len(val_kp) THEN 2 ELSE 3

\* boundary x (the number of slots before it) falls between the two slots of
\* one recording, which are in different partitions
CutsRecording(x) ==
    LET layout == LayoutOf(Len(dataset) \div 2)
    IN  /\ layout[x][1] = layout[x + 1][1]
        /\ layout[x][2] = 0 /\ layout[x + 1][2] = 1
        /\ PartitionOf(x) < PartitionOf(x + 1)

SplitBoundaries == {Len(training_kp), Len(training_kp) + Len(val_kp)}

\* C30: the split of a corpus laid out as get_keypoints lays it out (an even
\* number of slots, slot 0 and slot 1 of recording j next to each other) puts
\* the two slots of one recording in different partitions at every boundary
\* that is odd; for 20 slots the first boundary is 13, slot 0 of recording 6
\* is the last training slot and slot 1 of recording 6 the first validation
\* slot.
C30_OddBoundaryCutsRecording ==
    (pc = "loaders" /\ Len(dataset) % 2 = 0) =>
        /\ \A x \in SplitBoundaries : (x % 2 = 1) => CutsRecording(x)
        /\ Len(dataset) = 20 =>
              /\ 13 \in SplitBoundaries /\ CutsRecording(13)
              /\ LayoutOf(10)[13] = <<6, 0>> /\ training_kp[13] = dataset[13]
              /\ LayoutOf(10)[14] = <<6, 1>> /\ val_kp[1] = dataset[14]

\* a corpus of 20 slots has been split and recording 6 is cut in two
C30_Witness ==
    /\ pc = "loaders" /\ Len(dataset) = 20
    /\ Len(training_kp) = 13 /\ CutsRecording(13)
    /\ PartitionOf(13) = 1 /\ PartitionOf(14) = 2

====
